---------------------------- MODULE Spec2Model ----------------------------
(***************************************************************************)
(* Payment-screenshot panel: the upload pipeline (vision adapter first,    *)
(* OCR + field parser as fallback) of complete_panel_with_generation.py    *)
(* and single_file_panel.py.                                               *)
(*                                                                         *)
(* Text is a sequence of one-character strings.  A Python value is a       *)
(* tagged record (None, str, int, bool, list, dict); a dict is a function  *)
(* from key names to Python values.                                        *)
(***************************************************************************)
EXTENDS Integers, Sequences, FiniteSets, TLC

(***************************************************************************)
(* Bounds of the model.                                                    *)
(***************************************************************************)
\* longest OCR output enumerated over OcrAlphabet (besides the sample texts)
MaxOcrLen == 2
\* longest run of padding characters around the vision reply's body
MaxPad == 1
\* the longest text without keywords handed to parse_text_manually
MaxNoiseLen == 2
\* the number of requests the server handles at the same time
MaxRequests == 2

(***************************************************************************)
(* Python values.                                                          *)
(***************************************************************************)
None == [t |-> "None"]
PyStr(s) == [t |-> "str", s |-> s]
PyInt(n) == [t |-> "int", n |-> n]
PyBool(b) == [t |-> "bool", b |-> b]
PyList(xs) == [t |-> "list", xs |-> xs]
PyDict(m) == [t |-> "dict", m |-> m]

\* the empty dict {}
EmptyDict == [k \in {} |-> None]

\* d.get(k): the value under k, None when the key is missing
Get(d, k) == IF k \in DOMAIN d THEN d[k] ELSE None

\* Python truthiness of a value (bool(v))
Truthy(v) ==
    CASE v.t = "None" -> FALSE
      [] v.t = "str"  -> v.s # <<>>
      [] v.t = "int"  -> v.n # 0
      [] v.t = "bool" -> v.b
      [] v.t = "list" -> v.xs # <<>>
      [] v.t = "dict" -> DOMAIN v.m # {}

(***************************************************************************)
(* Characters and str methods.                                             *)
(***************************************************************************)
UpperLetters == <<"A","B","C","D","E","F","G","H","I","J","K","L","M",
                  "N","O","P","Q","R","S","T","U","V","W","X","Y","Z">>
LowerLetters == <<"a","b","c","d","e","f","g","h","i","j","k","l","m",
                  "n","o","p","q","r","s","t","u","v","w","x","y","z">>
Letters == {UpperLetters[i] : i \in DOMAIN UpperLetters}
             \cup {LowerLetters[i] : i \in DOMAIN LowerLetters}
Digits == {"0","1","2","3","4","5","6","7","8","9"}
\* \s and the characters str.strip() removes
Whitespace == {" ", "\n", "\t", "\r"}
\* \w
WordChars == Letters \cup Digits \cup {"_"}
\* [A-Za-z0-9]
AlNum == Letters \cup Digits

\* c.lower()
LowerChar(c) ==
    IF \E i \in DOMAIN UpperLetters : UpperLetters[i] = c
    THEN LowerLetters[CHOOSE i \in DOMAIN UpperLetters : UpperLetters[i] = c]
    ELSE c

\* c.upper()
UpperChar(c) ==
    IF \E i \in DOMAIN LowerLetters : LowerLetters[i] = c
    THEN UpperLetters[CHOOSE i \in DOMAIN LowerLetters : LowerLetters[i] = c]
    ELSE c

\* s.lower()
Lower(s) == [i \in 1..Len(s) |-> LowerChar(s[i])]

RECURSIVE lstrip(_)
lstrip(s) == IF s # <<>> /\ Head(s) \in Whitespace THEN lstrip(Tail(s)) ELSE s

RECURSIVE rstrip(_)
rstrip(s) ==
    IF s # <<>> /\ s[Len(s)] \in Whitespace
    THEN rstrip(SubSeq(s, 1, Len(s) - 1))
    ELSE s

\* s.strip()
strip(s) == rstrip(lstrip(s))

\* sub in s
Contains(s, sub) ==
    \E i \in 1..(Len(s) - Len(sub) + 1) : SubSeq(s, i, i + Len(sub) - 1) = sub

\* s.split('\n'): the pieces between newlines, empty pieces kept
RECURSIVE SplitLines(_)
SplitLines(s) ==
    IF \E i \in 1..Len(s) : s[i] = "\n"
    THEN LET i == CHOOSE j \in 1..Len(s) :
                     s[j] = "\n" /\ \A k \in 1..(j - 1) : s[k] # "\n"
         IN  <<SubSeq(s, 1, i - 1)>> \o SplitLines(SubSeq(s, i + 1, Len(s)))
    ELSE <<s>>

\* s.title(): first letter of each run of letters upper-cased, the rest lower
Title(s) ==
    [i \in 1..Len(s) |->
        IF i = 1 \/ s[i - 1] \notin Letters
        THEN UpperChar(s[i]) ELSE LowerChar(s[i])]

(***************************************************************************)
(* Regular expressions (module re).  Every pattern of the program is a     *)
(* concatenation of quantified character classes with one capture group:   *)
(* an item matches between lo and hi characters (hi = -1: no upper limit)  *)
(* of class cls (of its complement when neg), greedily, with backtracking. *)
(***************************************************************************)
Rep(cls, lo, hi) == [cls |-> cls, neg |-> FALSE, lo |-> lo, hi |-> hi]
Lit(c) == Rep({c}, 1, 1)
Opt(cls) == Rep(cls, 0, 1)
Star(cls) == Rep(cls, 0, -1)
Plus(cls) == Rep(cls, 1, -1)
\* . under re.DOTALL, any number of times
AnyStar == [cls |-> {}, neg |-> TRUE, lo |-> 0, hi |-> -1]

\* whether character c is in the item's class (icase: re.IGNORECASE)
ItemAccepts(it, c, icase) ==
    LET member == IF icase
              THEN LowerChar(c) \in {LowerChar(x) : x \in it.cls}
              ELSE c \in it.cls
    IN  member # it.neg

\* the number of characters from pos on that the item can take at most
RECURSIVE MaxRun(_, _, _, _, _)
MaxRun(it, text, pos, icase, n) ==
    IF (it.hi = -1 \/ n < it.hi) /\ pos + n <= Len(text)
                                 /\ ItemAccepts(it, text[pos + n], icase)
    THEN MaxRun(it, text, pos, icase, n + 1)
    ELSE n

NoMatch == [ok |-> FALSE, ends |-> <<>>]

\* match items k.. at pos; ends[j] is the position after item k+j-1
RECURSIVE MatchItems(_, _, _, _, _)
RECURSIVE TryCounts(_, _, _, _, _, _)
MatchItems(items, k, text, pos, icase) ==
    IF k > Len(items)
    THEN [ok |-> TRUE, ends |-> <<>>]
    ELSE TryCounts(items, k, text, pos, icase,
                   MaxRun(items[k], text, pos, icase, 0))

\* item k takes n characters, then fewer (backtracking), never below lo
TryCounts(items, k, text, pos, icase, n) ==
    IF n < items[k].lo
    THEN NoMatch
    ELSE LET rest == MatchItems(items, k + 1, text, pos + n, icase)
         IN  IF rest.ok
             THEN [ok |-> TRUE, ends |-> <<pos + n>> \o rest.ends]
             ELSE TryCounts(items, k, text, pos, icase, n - 1)

\* the match of pattern p that starts at pos, if any: its span and group 1
MatchAt(p, text, pos, icase) ==
    LET r == MatchItems(p.items, 1, text, pos, icase)
        gstart == IF p.g0 = 1 THEN pos ELSE r.ends[p.g0 - 1]
    IN  IF r.ok
        THEN [ok |-> TRUE, start |-> pos, end |-> r.ends[Len(p.items)],
              group1 |-> SubSeq(text, gstart, r.ends[p.g1] - 1)]
        ELSE [ok |-> FALSE, start |-> 0, end |-> 0, group1 |-> <<>>]

\* re.search(p, text[from..]): the leftmost match starting at from or later
RECURSIVE SearchFrom(_, _, _, _)
SearchFrom(p, text, from, icase) ==
    IF from > Len(text) + 1
    THEN [ok |-> FALSE, start |-> 0, end |-> 0, group1 |-> <<>>]
    ELSE LET m == MatchAt(p, text, from, icase)
         IN  IF m.ok THEN m ELSE SearchFrom(p, text, from + 1, icase)

\* re.search(p, text, flags)
re_search(p, text, icase) == SearchFrom(p, text, 1, icase)

\* re.findall(p, text): group 1 of the successive non-overlapping matches
RECURSIVE FindAllFrom(_, _, _)
FindAllFrom(p, text, from) ==
    LET m == SearchFrom(p, text, from, FALSE)
    IN  IF ~m.ok
        THEN <<>>
        ELSE <<m.group1>> \o
             FindAllFrom(p, text, IF m.end > m.start THEN m.end ELSE m.end + 1)

re_findall(p, text) == FindAllFrom(p, text, 1)

(***************************************************************************)
(* parse_text_manually: the field parser.                                  *)
(***************************************************************************)
\* the keys of the record parse_text_manually builds
PaymentKeys == {"transaction_id", "amount", "date", "sender", "receiver",
                "fee", "payment_method", "status", "phone_numbers",
                "reference", "bank_info", "location", "all_text"}

\* the character U+20A8 (rupee sign)
RupeeSign == "u20A8"

\* [:\s]
ColonSpace == {":"} \cup Whitespace

\* patterns['transaction_id']
TransactionIdPatterns == <<
    [items |-> <<Lit("T"), Lit("I"), Lit("D"), Star(ColonSpace), Plus(AlNum)>>,
     g0 |-> 5, g1 |-> 5],
    [items |-> <<Lit("T"), Lit("r"), Lit("a"), Lit("n"), Lit("s"), Lit("a"), Lit("c"), Lit("t"), Lit("i"), Lit("o"), Lit("n"),
                 Plus(Whitespace), Lit("I"), Lit("D"),
                 Star(ColonSpace), Plus(AlNum)>>,
     g0 |-> 16, g1 |-> 16],
    [items |-> <<Lit("R"), Lit("e"), Lit("f"), Star(ColonSpace), Plus(AlNum)>>,
     g0 |-> 5, g1 |-> 5],
    [items |-> <<Lit("R"), Lit("e"), Lit("f"), Lit("e"), Lit("r"), Lit("e"), Lit("n"), Lit("c"), Lit("e"),
                 Star(ColonSpace), Plus(AlNum)>>,
     g0 |-> 11, g1 |-> 11] >>

\* variant: the PKR pattern stands before the Rs pattern
AmountPatterns_pkr_first == <<
    [items |-> <<Lit("P"), Lit("K"), Lit("R"), Star(Whitespace),
                 Plus(Digits \cup {","}), Opt({"."}), Star(Digits)>>,
     g0 |-> 5, g1 |-> 7],
    [items |-> <<Lit("R"), Lit("s"), Opt({"."}), Star(Whitespace),
                 Plus(Digits \cup {","}), Opt({"."}), Star(Digits)>>,
     g0 |-> 5, g1 |-> 7],
    [items |-> <<Lit(RupeeSign), Star(Whitespace),
                 Plus(Digits \cup {","}), Opt({"."}), Star(Digits)>>,
     g0 |-> 3, g1 |-> 5] >>

\* patterns['amount']
AmountPatterns == <<
    [items |-> <<Lit("R"), Lit("s"), Opt({"."}), Star(Whitespace),
                 Plus(Digits \cup {","}), Opt({"."}), Star(Digits)>>,
     g0 |-> 5, g1 |-> 7],
    [items |-> <<Lit("P"), Lit("K"), Lit("R"), Star(Whitespace),
                 Plus(Digits \cup {","}), Opt({"."}), Star(Digits)>>,
     g0 |-> 5, g1 |-> 7],
    [items |-> <<Lit(RupeeSign), Star(Whitespace),
                 Plus(Digits \cup {","}), Opt({"."}), Star(Digits)>>,
     g0 |-> 3, g1 |-> 5] >>

\* patterns['date']
DatePatterns == <<
    [items |-> <<Plus(WordChars), Plus(Whitespace), Rep(Digits, 1, 2), Lit(","),
                     Plus(Whitespace), Rep(Digits, 4, 4), Plus(Whitespace),
                     Lit("a"), Lit("t"), Plus(Whitespace), Rep(Digits, 1, 2),
                     Lit(":"), Rep(Digits, 2, 2)>>,
     g0 |-> 1, g1 |-> 13],
    [items |-> <<Lit("O"), Lit("n"), Plus(Whitespace),
                 Plus(WordChars), Plus(Whitespace), Rep(Digits, 1, 2), Lit(","),
                     Plus(Whitespace), Rep(Digits, 4, 4), Plus(Whitespace),
                     Lit("a"), Lit("t"), Plus(Whitespace), Rep(Digits, 1, 2),
                     Lit(":"), Rep(Digits, 2, 2)>>,
     g0 |-> 4, g1 |-> 16],
    [items |-> <<Rep(Digits, 1, 2), Lit("/"), Rep(Digits, 1, 2), Lit("/"),
                 Rep(Digits, 4, 4), Plus(Whitespace), Rep(Digits, 1, 2),
                 Lit(":"), Rep(Digits, 2, 2)>>,
     g0 |-> 1, g1 |-> 9] >>

\* patterns['fee']
FeePatterns == <<
    [items |-> <<Lit("F"), Lit("e"), Lit("e"), Star(ColonSpace),
                 Lit("R"), Lit("s"), Opt({"."}), Star(Whitespace),
                 Plus(Digits \cup {","}), Opt({"."}), Star(Digits)>>,
     g0 |-> 9, g1 |-> 11],
    [items |-> <<Lit("C"), Lit("h"), Lit("a"), Lit("r"), Lit("g"), Lit("e"), Lit("s"),
                 Star(ColonSpace),
                 Lit("R"), Lit("s"), Opt({"."}), Star(Whitespace),
                 Plus(Digits \cup {","}), Opt({"."}), Star(Digits)>>,
     g0 |-> 13, g1 |-> 15] >>

\* phone_patterns
PhonePatterns == <<
    [items |-> <<Lit("+"), Lit("9"), Lit("2"), Rep(Digits, 10, 10)>>,
     g0 |-> 1, g1 |-> 4],
    [items |-> <<Lit("0"), Lit("3"), Rep(Digits, 9, 9)>>,
     g0 |-> 1, g1 |-> 3],
    [items |-> <<Rep(Digits, 11, 11)>>, g0 |-> 1, g1 |-> 1] >>

\* variant: the digit run that rules a candidate line out is \d{12,}
DigitRun_twelve == [items |-> <<Rep(Digits, 12, -1)>>, g0 |-> 1, g1 |-> 1]

\* \d{10,}
DigitRun == [items |-> <<Rep(Digits, 10, -1)>>, g0 |-> 1, g1 |-> 1]

\* methods
PaymentMethods == <<<<"j", "a", "z", "z", "c", "a", "s", "h">>,
                    <<"e", "a", "s", "y", "p", "a", "i", "s", "a">>,
                    <<"u", "b", "l">>,
                    <<"h", "b", "l">>,
                    <<"b", "a", "n", "k">>,
                    <<"w", "a", "l", "l", "e", "t">>>>

\* variant: the loop without its break, a later pattern that matches
\* overwrites an earlier one
RECURSIVE FirstPatternMatch_no_break(_, _, _)
FirstPatternMatch_no_break(field_patterns, k, text) ==
    IF k > Len(field_patterns)
    THEN [ok |-> FALSE, group1 |-> <<>>]
    ELSE LET match == re_search(field_patterns[k], text, TRUE)
             later == FirstPatternMatch_no_break(field_patterns, k + 1, text)
         IN  IF later.ok
             THEN later
             ELSE IF match.ok
                  THEN [ok |-> TRUE, group1 |-> match.group1]
                  ELSE later

\* the inner loop over field_patterns: group 1 of the first pattern that
\* matches anywhere in the text (re.IGNORECASE), None when none does
RECURSIVE FirstPatternMatch(_, _, _)
FirstPatternMatch(field_patterns, k, text) ==
    IF k > Len(field_patterns)
    THEN [ok |-> FALSE, group1 |-> <<>>]
    ELSE LET match == re_search(field_patterns[k], text, TRUE)
         IN  IF match.ok
             THEN [ok |-> TRUE, group1 |-> match.group1]
             ELSE FirstPatternMatch(field_patterns, k + 1, text)

\* variant: a field without a match holds "" instead of None
PlainField_empty_string(field_patterns, text) ==
    LET m == FirstPatternMatch(field_patterns, 1, text)
    IN  IF m.ok THEN PyStr(m.group1) ELSE PyStr(<<>>)

\* data[field] after the pattern loop, for transaction_id and date
PlainField(field_patterns, text) ==
    LET m == FirstPatternMatch(field_patterns, 1, text)
    IN  IF m.ok THEN PyStr(m.group1) ELSE None

\* data[field] after the pattern loop, for amount and fee
RupeeField(field_patterns, text) ==
    LET m == FirstPatternMatch(field_patterns, 1, text)
    IN  IF m.ok THEN PyStr(<<"R", "s", ".", " ">> \o m.group1) ELSE None

SeqToSet(xs) == {xs[i] : i \in DOMAIN xs}

\* the set phone_numbers after the loop over phone_patterns
PhoneSet(text) ==
    UNION {SeqToSet(re_findall(PhonePatterns[k], text)) :
               k \in DOMAIN PhonePatterns}

\* list(phone_numbers): the elements of the set, each once, in the order
\* the set iterates them (not determined by the program)
ListsOfSet(S) ==
    {xs \in [1..Cardinality(S) -> S] : SeqToSet(xs) = S}

\* variant: the receiver rule without its test for "total"
LineStep_no_total(acc, lines, i) ==
    LET line_lower == Lower(lines[i])
        next_line == strip(lines[i + 1])
        sender ==
            IF Contains(line_lower, <<"f", "r", "o", "m">>) /\ i + 1 <= Len(lines)
               /\ ~re_search(DigitRun, next_line, FALSE).ok
            THEN PyStr(next_line) ELSE acc.sender
        receiver ==
            IF Contains(line_lower, <<"t", "o">>)
               /\ i + 1 <= Len(lines)
               /\ ~re_search(DigitRun, next_line, FALSE).ok
            THEN PyStr(next_line) ELSE acc.receiver
        status ==
            IF Contains(line_lower, <<"s", "u", "c", "c", "e", "s", "s", "f", "u", "l">>)
            THEN PyStr(<<"S", "u", "c", "c", "e", "s", "s", "f", "u", "l">>)
            ELSE IF Contains(line_lower, <<"f", "a", "i", "l", "e", "d">>)
            THEN PyStr(<<"F", "a", "i", "l", "e", "d">>)
            ELSE IF Contains(line_lower, <<"p", "e", "n", "d", "i", "n", "g">>)
            THEN PyStr(<<"P", "e", "n", "d", "i", "n", "g">>)
            ELSE acc.status
    IN  [sender |-> sender, receiver |-> receiver, status |-> status]

\* one iteration of the loop over lines: acc holds sender, receiver, status
LineStep(acc, lines, i) ==
    LET line_lower == Lower(lines[i])
        next_line == strip(lines[i + 1])
        sender ==
            IF Contains(line_lower, <<"f", "r", "o", "m">>) /\ i + 1 <= Len(lines)
               /\ ~re_search(DigitRun, next_line, FALSE).ok
            THEN PyStr(next_line) ELSE acc.sender
        receiver ==
            IF Contains(line_lower, <<"t", "o">>)
               /\ ~Contains(line_lower, <<"t", "o", "t", "a", "l">>)
               /\ i + 1 <= Len(lines)
               /\ ~re_search(DigitRun, next_line, FALSE).ok
            THEN PyStr(next_line) ELSE acc.receiver
        status ==
            IF Contains(line_lower, <<"s", "u", "c", "c", "e", "s", "s", "f", "u", "l">>)
            THEN PyStr(<<"S", "u", "c", "c", "e", "s", "s", "f", "u", "l">>)
            ELSE IF Contains(line_lower, <<"f", "a", "i", "l", "e", "d">>)
            THEN PyStr(<<"F", "a", "i", "l", "e", "d">>)
            ELSE IF Contains(line_lower, <<"p", "e", "n", "d", "i", "n", "g">>)
            THEN PyStr(<<"P", "e", "n", "d", "i", "n", "g">>)
            ELSE acc.status
    IN  [sender |-> sender, receiver |-> receiver, status |-> status]

\* variant: the lines are gone through from the last to the first
RECURSIVE LineLoop_backwards(_, _, _)
LineLoop_backwards(acc, lines, i) ==
    IF i > Len(lines)
    THEN acc
    ELSE LineStep(LineLoop_backwards(acc, lines, i + 1), lines, i)

\* the loop over lines, from line i on
RECURSIVE LineLoop(_, _, _)
LineLoop(acc, lines, i) ==
    IF i > Len(lines) THEN acc
    ELSE LineLoop(LineStep(acc, lines, i), lines, i + 1)

\* variant: the loop without its break, the last method found stays
RECURSIVE MethodLoop_no_break(_, _)
MethodLoop_no_break(k, text) ==
    IF k > Len(PaymentMethods) THEN None
    ELSE LET later == MethodLoop_no_break(k + 1, text)
         IN  IF later # None
             THEN later
             ELSE IF Contains(Lower(text), PaymentMethods[k])
                  THEN PyStr(Title(PaymentMethods[k]))
                  ELSE None

\* the loop over methods: the first one found in text.lower(), title-cased
RECURSIVE MethodLoop(_, _)
MethodLoop(k, text) ==
    IF k > Len(PaymentMethods) THEN None
    ELSE IF Contains(Lower(text), PaymentMethods[k])
         THEN PyStr(Title(PaymentMethods[k]))
         ELSE MethodLoop(k + 1, text)

\* parse_text_manually(text), with phone_numbers listed in the order phones
parse_text_manually(text, phones) ==
    LET names == LineLoop([sender |-> None, receiver |-> None, status |-> None],
                          SplitLines(text), 1)
    IN  [transaction_id |-> PlainField(TransactionIdPatterns, text),
         amount |-> RupeeField(AmountPatterns, text),
         date |-> PlainField(DatePatterns, text),
         sender |-> names.sender,
         receiver |-> names.receiver,
         fee |-> RupeeField(FeePatterns, text),
         payment_method |-> MethodLoop(1, text),
         status |-> names.status,
         phone_numbers |-> PyList(phones),
         reference |-> None,
         bank_info |-> None,
         location |-> None,
         all_text |-> PyStr(text)]

\* every record parse_text_manually can return for the text
ParserOutputs(text) ==
    {parse_text_manually(text, phones) : phones \in ListsOfSet(PhoneSet(text))}

(***************************************************************************)
(* json.loads, for documents of objects, arrays, strings without escapes,  *)
(* integers and the literals null, true, false.                            *)
(***************************************************************************)
\* the whitespace json skips between tokens
JsonWs == {" ", "\n", "\t", "\r"}
\* characters a JSON string may not hold unescaped
JsonControl == {"\n", "\t", "\r"}

\* the key of a dict as a name: the characters joined
RECURSIVE Join(_)
Join(cs) == IF cs = <<>> THEN "" ELSE Head(cs) \o Join(Tail(cs))

RECURSIVE SkipWs(_, _)
SkipWs(t, i) ==
    IF i <= Len(t) /\ t[i] \in JsonWs THEN SkipWs(t, i + 1) ELSE i

\* whether text t holds word w at position i
HasAt(t, i, w) == i + Len(w) - 1 <= Len(t) /\ SubSeq(t, i, i + Len(w) - 1) = w

\* the value of a run of digits
RECURSIVE DigitsValue(_)
DigitsValue(ds) ==
    IF ds = <<>> THEN 0
    ELSE 10 * DigitsValue(SubSeq(ds, 1, Len(ds) - 1))
         + (CHOOSE n \in 0..9 :
               <<"0","1","2","3","4","5","6","7","8","9">>[n + 1] = ds[Len(ds)])

\* the end of the run of digits that starts at i
RECURSIVE DigitsEnd(_, _)
DigitsEnd(t, i) ==
    IF i <= Len(t) /\ t[i] \in Digits THEN DigitsEnd(t, i + 1) ELSE i

JsonFail == [ok |-> FALSE, val |-> None, pos |-> 0]

\* a string: from the quote at i to the next quote
JsonString(t, i) ==
    IF i <= Len(t) /\ t[i] = "\"" /\ \E j \in (i + 1)..Len(t) : t[j] = "\""
    THEN LET j == CHOOSE q \in (i + 1)..Len(t) :
                      t[q] = "\"" /\ \A k \in (i + 1)..(q - 1) : t[k] # "\""
         IN  IF \E k \in (i + 1)..(j - 1) : t[k] \in JsonControl
             THEN JsonFail
             ELSE [ok |-> TRUE, val |-> PyStr(SubSeq(t, i + 1, j - 1)),
                   pos |-> j + 1]
    ELSE JsonFail

\* an integer: an optional minus sign, then 0 or a run of digits not
\* starting with 0
JsonNumber(t, i) ==
    LET neg == i <= Len(t) /\ t[i] = "-"
        d == IF neg THEN i + 1 ELSE i
        e == IF d <= Len(t) /\ t[d] = "0" THEN d + 1 ELSE DigitsEnd(t, d)
        n == DigitsValue(SubSeq(t, d, e - 1))
    IN  IF e > d
        THEN [ok |-> TRUE, val |-> PyInt(IF neg THEN 0 - n ELSE n), pos |-> e]
        ELSE JsonFail

RECURSIVE JsonValue(_, _)
RECURSIVE JsonElements(_, _, _)
RECURSIVE JsonMembers(_, _, _)

\* the value that starts at i
JsonValue(t, i) ==
    IF i > Len(t) THEN JsonFail
    ELSE IF t[i] = "\"" THEN JsonString(t, i)
    ELSE IF t[i] = "{"
         THEN LET j == SkipWs(t, i + 1)
              IN  IF j <= Len(t) /\ t[j] = "}"
                  THEN [ok |-> TRUE, val |-> PyDict(EmptyDict), pos |-> j + 1]
                  ELSE JsonMembers(t, j, EmptyDict)
    ELSE IF t[i] = "["
         THEN LET j == SkipWs(t, i + 1)
              IN  IF j <= Len(t) /\ t[j] = "]"
                  THEN [ok |-> TRUE, val |-> PyList(<<>>), pos |-> j + 1]
                  ELSE JsonElements(t, j, <<>>)
    ELSE IF HasAt(t, i, <<"n","u","l","l">>)
         THEN [ok |-> TRUE, val |-> None, pos |-> i + 4]
    ELSE IF HasAt(t, i, <<"t","r","u","e">>)
         THEN [ok |-> TRUE, val |-> PyBool(TRUE), pos |-> i + 4]
    ELSE IF HasAt(t, i, <<"f","a","l","s","e">>)
         THEN [ok |-> TRUE, val |-> PyBool(FALSE), pos |-> i + 5]
    ELSE JsonNumber(t, i)

\* the elements of an array, the next one starting at i
JsonElements(t, i, acc) ==
    LET v == JsonValue(t, i)
        j == SkipWs(t, v.pos)
    IN  IF ~v.ok \/ j > Len(t) THEN JsonFail
        ELSE IF t[j] = "]"
             THEN [ok |-> TRUE, val |-> PyList(Append(acc, v.val)),
                   pos |-> j + 1]
        ELSE IF t[j] = ","
             THEN JsonElements(t, SkipWs(t, j + 1), Append(acc, v.val))
        ELSE JsonFail

\* the members of an object, the next key starting at i; a repeated key
\* keeps its last value
JsonMembers(t, i, acc) ==
    LET k == JsonString(t, i)
        c == SkipWs(t, k.pos)
        v == JsonValue(t, SkipWs(t, c + 1))
        j == SkipWs(t, v.pos)
        key == Join(k.val.s)
        obj == [x \in DOMAIN acc \cup {key} |->
                    IF x = key THEN v.val ELSE acc[x]]
    IN  IF ~k.ok \/ c > Len(t) \/ t[c] # ":" THEN JsonFail
        ELSE IF ~v.ok \/ j > Len(t) THEN JsonFail
        ELSE IF t[j] = "}"
             THEN [ok |-> TRUE, val |-> PyDict(obj), pos |-> j + 1]
        ELSE IF t[j] = ","
             THEN JsonMembers(t, SkipWs(t, j + 1), obj)
        ELSE JsonFail

\* json.loads(t): ok is FALSE where json.loads raises JSONDecodeError
json_loads(t) ==
    LET v == JsonValue(t, SkipWs(t, 1))
    IN  IF v.ok /\ SkipWs(t, v.pos) > Len(t)
        THEN [ok |-> TRUE, val |-> v.val]
        ELSE [ok |-> FALSE, val |-> None]

(***************************************************************************)
(* Exceptions: a call either returns a value or raises; exc names the      *)
(* exception class ("" when the call returned) and val holds the returned  *)
(* value, or str(e) of the exception; at names the return statement (or    *)
(* the raise) through which the function was left.                         *)
(***************************************************************************)
Returned(v, at) == [exc |-> "", val |-> v, at |-> at]
Raised(kind, msg) == [exc |-> kind, val |-> PyStr(msg), at |-> "raise"]

(***************************************************************************)
(* extract_with_gemini: the vision adapter.                                *)
(***************************************************************************)
\* r'\{.*\}' (searched with re.DOTALL)
BracePattern == [items |-> <<Lit("{"), AnyStar, Lit("}")>>, g0 |-> 1, g1 |-> 3]

\* the body of the inner try: response.text, strip, search, json.loads.
\* response.text raises when the reply holds no readable text.
gemini_try_parse(response) ==
    IF ~response.readable
    THEN Raised("ValueError", <<"n", "o", " ", "t", "e", "x", "t">>)
    ELSE LET response_text == strip(response.text)
             json_match == re_search(BracePattern, response_text, FALSE)
             loaded == json_loads(json_match.group1)
         IN  IF json_match.ok
             THEN IF loaded.ok
                  THEN Returned(loaded.val.m, "json")
                  ELSE Raised("JSONDecodeError", <<"b", "a", "d", " ", "j", "s", "o", "n">>)
             ELSE Returned([k \in {"all_text"} |-> PyStr(response_text)],
                           "no_json")

\* variant: the handler of JSONDecodeError reports the failure under the key
\* error, as the outer handler does
gemini_except_json_as_error(response, r) ==
    IF r.exc = "JSONDecodeError"
    THEN Returned([k \in {"error"} |-> r.val], "json_error")
    ELSE r

\* variant: the handler of JSONDecodeError hands back the stripped text
gemini_except_json_stripped(response, r) ==
    IF r.exc = "JSONDecodeError"
    THEN Returned([k \in {"all_text"} |-> PyStr(strip(response.text))],
                  "json_error")
    ELSE r

\* except json.JSONDecodeError: return {"all_text": response.text}
gemini_except_json(response, r) ==
    IF r.exc = "JSONDecodeError"
    THEN Returned([k \in {"all_text"} |-> PyStr(response.text)], "json_error")
    ELSE r

\* variant: the outer handler hands back the message as the text read
gemini_except_outer_as_text(r) ==
    IF r.exc # ""
    THEN Returned([k \in {"all_text"} |-> r.val], "exception")
    ELSE r

\* variant: no outer handler, the exception leaves the function
gemini_except_outer_missing(r) == r

\* except Exception as e: return {"error": str(e)}
gemini_except_outer(r) ==
    IF r.exc # ""
    THEN Returned([k \in {"error"} |-> r.val], "exception")
    ELSE r

\* what extract_with_gemini returns once the service has replied
gemini_after_reply(response) ==
    gemini_except_outer(gemini_except_json(response, gemini_try_parse(response)))

(***************************************************************************)
(* preprocess_image_for_ocr and extract_with_tesseract.                    *)
(***************************************************************************)
\* the recognition configurations, in the order of the list configs
Configs == <<"psm6", "psm4", "psm3">>

\* variant: the cv2 version gives None where its handler reopens the bytes
preprocess_image_for_ocr_no_reopen(panel, image) ==
    IF panel = "complete"
    THEN IF image.decodable /\ image.enhance_ok
         THEN Returned("enhanced", "try")
         ELSE IF image.decodable
              THEN Returned("raw", "except")
              ELSE Raised("UnidentifiedImageError", <<"c", "a", "n", "n", "o", "t", " ", "i", "d", "e", "n", "t", "i", "f", "y", " ", "i", "m", "a", "g", "e">>)
    ELSE IF ~image.decodable \/ ~image.enhance_ok
         THEN Returned("None", "none")
         ELSE Returned("enhanced", "try")

\* preprocess_image_for_ocr of the given source file: the image it returns
\* ("enhanced", "raw" or "None"), or the exception that escapes it
preprocess_image_for_ocr(panel, image) ==
    IF panel = "complete"
    THEN IF image.decodable /\ image.enhance_ok
         THEN Returned("enhanced", "try")
         ELSE IF image.decodable
              THEN Returned("raw", "except")
              ELSE Raised("UnidentifiedImageError", <<"c", "a", "n", "n", "o", "t", " ", "i", "d", "e", "n", "t", "i", "f", "y", " ", "i", "m", "a", "g", "e">>)
    ELSE IF ~image.decodable
         THEN Returned("None", "none")
         ELSE IF image.enhance_ok
              THEN Returned("enhanced", "try")
              ELSE Returned("raw", "except")

\* variant: the comparison of the loop is >= instead of >
keep_best_or_equal(best_text, out) ==
    IF out.err
    THEN best_text
    ELSE IF Len(strip(out.text)) >= Len(strip(best_text))
         THEN out.text
         ELSE best_text

\* one iteration of the loop over configs: best_text after the attempt
\* (out.err: image_to_string raised, and the bare except continues)
keep_best(best_text, out) ==
    IF out.err
    THEN best_text
    ELSE IF Len(strip(out.text)) > Len(strip(best_text))
         THEN out.text
         ELSE best_text

\* variant: no outer handler around the preprocessing and the loop
tesseract_except_outer_missing(r) == r

\* except Exception: return ""
tesseract_except_outer(r) ==
    IF r.exc # "" THEN Returned(<<>>, "exception") ELSE r

(***************************************************************************)
(* upload_file: the decision between the two paths.                        *)
(***************************************************************************)
\* variant: the condition without its test of the error key
gemini_accepted_ignoring_error(gemini_data) ==
    /\ DOMAIN gemini_data # {}
    /\ Truthy(Get(gemini_data, "all_text"))

\* if gemini_data and not gemini_data.get('error') and gemini_data.get('all_text')
gemini_accepted(gemini_data) ==
    /\ DOMAIN gemini_data # {}
    /\ ~Truthy(Get(gemini_data, "error"))
    /\ Truthy(Get(gemini_data, "all_text"))

\* variant: the accepted mapping is taken over but the method keeps its
\* initial value
upload_decide_stale_method(gemini_data, extracted_data, extraction_method) ==
    IF gemini_accepted(gemini_data)
    THEN [extracted_data |-> gemini_data,
          extraction_method |-> extraction_method]
    ELSE [extracted_data |-> extracted_data,
          extraction_method |-> extraction_method]

\* the locals extracted_data and extraction_method after the if statement
\* on gemini_data
upload_decide(gemini_data, extracted_data, extraction_method) ==
    IF gemini_accepted(gemini_data)
    THEN [extracted_data |-> gemini_data, extraction_method |-> "gemini"]
    ELSE [extracted_data |-> extracted_data,
          extraction_method |-> extraction_method]

\* variant: the fallback runs whatever the vision path left
needs_fallback_always(extracted_data) == TRUE

\* if not extracted_data.get('all_text')
needs_fallback(extracted_data) == ~Truthy(Get(extracted_data, "all_text"))

(***************************************************************************)
(* The inputs the environment supplies: uploaded files, replies of the     *)
(* vision service, outputs of the OCR engine.                              *)
(***************************************************************************)
\* all sequences over S of length at most n
SeqsUpTo(S, n) == UNION {[1..k -> S] : k \in 0..n}

\* uploaded images: whether the bytes decode, and whether the enhancement
\* steps run through on them
Images == {[decodable |-> TRUE, enhance_ok |-> TRUE],
           [decodable |-> TRUE, enhance_ok |-> FALSE],
           [decodable |-> FALSE, enhance_ok |-> FALSE]}

\* uploads upload_file turns away before the pipeline
RejectReasons == {"No file provided", "No file selected", "Invalid file type"}

\* str(e) of the exception a service call raises: may be empty
ErrorMessages == {<<>>, <<"q", "u", "o", "t", "a">>}

\* receipts as the OCR engine may read them
SampleTexts == {<<"T", "I", "D", ":", " ", "A", "1", "\n", "R", "s", ".", " ", "5", "0", "\n", "P", "a", "i", "d", " ", "S", "u", "c", "c", "e", "s", "s", "f", "u", "l">>,
                <<"F", "r", "o", "m", "\n", "A", "l", "i", "\n", "T", "o", "\n", "B", "o", "b">>,
                <<"+", "9", "2", "3", "0", "0", "1", "2", "3", "4", "5", "6", "7", " ", "0", "3", "0", "0", "1", "2", "3", "4", "5", "6", "7">>,
                <<"j", "a", "z", "z", "c", "a", "s", "h", " ", "F", "e", "e", ":", " ", "R", "s", " ", "2">>}

OcrAlphabet == {"a", " "}

OcrTexts == SeqsUpTo(OcrAlphabet, MaxOcrLen) \cup SampleTexts

\* parse_text_manually over the OCR texts, computed once: for each text the
\* records it can return
ParserResults == {[text |-> t, outputs |-> ParserOutputs(t)] : t \in OcrTexts}
ParsedRecords(text) == (CHOOSE p \in ParserResults : p.text = text).outputs

\* what pytesseract.image_to_string does for one configuration
OcrOutcomes == {[err |-> TRUE, text |-> <<>>]}
                 \cup {[err |-> FALSE, text |-> t] : t \in OcrTexts}

\* keys and values of the JSON objects the vision service may send:
\* "note" stands for a key outside the requested schema
ReplyKeyOrder == <<"error", "all_text", "amount", "phone_numbers", "note">>
ReplyKeys == {ReplyKeyOrder[i] : i \in DOMAIN ReplyKeyOrder}
KeyText == [error |-> <<"e", "r", "r", "o", "r">>,
            all_text |-> <<"a", "l", "l", "_", "t", "e", "x", "t">>,
            amount |-> <<"a", "m", "o", "u", "n", "t">>,
            phone_numbers |-> <<"p", "h", "o", "n", "e", "_", "n", "u", "m", "b", "e", "r", "s">>,
            note |-> <<"n", "o", "t", "e">>]
ReplyValues == [error |-> {None, PyStr(<<>>), PyStr(<<"q", "u", "o", "t", "a">>), PyInt(0)},
                all_text |-> {None, PyStr(<<>>), PyStr(<<"P", "a", "i", "d", " ", "R", "s", ".", " ", "5">>), PyInt(5)},
                amount |-> {PyStr(<<"R", "s", ".", " ", "5">>)},
                phone_numbers |-> {PyList(<<PyStr(<<"0", "3", "0", "0">>),
                                            PyStr(<<"0", "3", "0", "0">>)>>)},
                note |-> {PyStr(<<"x">>)}]
ReplyDicts ==
    UNION {{m \in [D -> UNION {ReplyValues[k] : k \in ReplyKeys}] :
                \A k \in D : m[k] \in ReplyValues[k]} : D \in SUBSET ReplyKeys}

\* the JSON text of a value and of an object, as the service writes it
RenderScalar(v) ==
    CASE v.t = "None" -> <<"n", "u", "l", "l">>
      [] v.t = "str"  -> <<"\"">> \o v.s \o <<"\"">>
      [] v.t = "int"  -> <<<<"0","1","2","3","4","5","6","7","8","9">>[v.n + 1]>>

RECURSIVE RenderItems(_)
RenderItems(xs) ==
    IF xs = <<>> THEN <<>>
    ELSE RenderScalar(Head(xs))
         \o (IF Len(xs) > 1 THEN <<",", " ">> ELSE <<>>)
         \o RenderItems(Tail(xs))

RenderValue(v) ==
    IF v.t = "list"
    THEN <<"[">> \o RenderItems(v.xs) \o <<"]">>
    ELSE RenderScalar(v)

RECURSIVE RenderFrom(_, _, _)
RenderFrom(m, i, first) ==
    IF i > Len(ReplyKeyOrder) THEN <<>>
    ELSE LET k == ReplyKeyOrder[i]
         IN  IF k \in DOMAIN m
             THEN (IF first THEN <<>> ELSE <<",", " ">>)
                  \o <<"\"">> \o KeyText[k] \o <<"\"", ":", " ">>
                  \o RenderValue(m[k]) \o RenderFrom(m, i + 1, FALSE)
             ELSE RenderFrom(m, i + 1, first)

Render(m) == <<"{">> \o RenderFrom(m, 1, TRUE) \o <<"}">>

\* replies that are no JSON object: no braces, one brace, braces in the
\* wrong order, braces around text that is no JSON, two objects
MalformedBodies == {<<>>, <<"P", "a", "i", "d", " ", "R", "s", ".", " ", "5">>,
                    <<"{">>,
                    <<"}">>,
                    <<"}", " ", "{">>,
                    <<"{", "P", "a", "i", "d", "}">>,
                    <<"{", "\"", "a", "l", "l", "_", "t", "e", "x", "t", "\"", ":", " ", "\"", "P", "a", "i", "d", "\"">>,
                    <<"{", "\"", "a", "l", "l", "_", "t", "e", "x", "t", "\"", ":", " ", "\"", "P", "a", "i", "d", "\"", "}", " ", "{", "}">>,
                    <<"{", "\"", "a", "l", "l", "_", "t", "e", "x", "t", "\"", ":", " ", "\"", "P", "a", "i", "d", "\"", ",", "}">>}

\* what surrounds the body: blanks, and prose
PadAlphabet == {" ", "x"}

ReplyTexts ==
    {pre \o body \o post :
        pre \in SeqsUpTo(PadAlphabet, MaxPad),
        body \in {Render(m) : m \in ReplyDicts} \cup MalformedBodies,
        post \in SeqsUpTo(PadAlphabet, MaxPad)}

\* the response object of generate_content: its text, or none readable
Responses == {[readable |-> FALSE, text |-> <<>>]}
               \cup {[readable |-> TRUE, text |-> t] : t \in ReplyTexts}

(***************************************************************************)
(* generate_new_screenshot: the receipt synthesizer.  An image is the      *)
(* canvas with what was drawn on it, in order.                             *)
(***************************************************************************)
\* width, height = 400, 600
width == 400
height == 600

\* variant: d.get(k), the default left out
GetOr_no_default(d, k, default) == IF k \in DOMAIN d THEN d[k] ELSE None

\* d.get(k, default)
GetOr(d, k, default) == IF k \in DOMAIN d THEN d[k] ELSE default

\* str(v) as an f-string writes it
DecimalDigits == <<"0", "1", "2", "3", "4", "5", "6", "7", "8", "9">>
Format(v) ==
    CASE v.t = "str"  -> v.s
      [] v.t = "int"  -> <<DecimalDigits[v.n + 1]>>
      [] v.t = "None" -> <<"N", "o", "n", "e">>
      [] OTHER        -> <<"?">>

\* len(v)
py_len(v) ==
    CASE v.t = "list" -> Returned(Len(v.xs), "len")
      [] v.t = "str"  -> Returned(Len(v.s), "len")
      [] v.t = "dict" -> Returned(Cardinality(DOMAIN v.m), "len")
      [] OTHER        -> Raised("TypeError", <<"n", "o", " ", "l", "e", "n">>)

\* v[i], i counted from 0
py_item(v, i) ==
    CASE v.t = "list" -> IF i < Len(v.xs) THEN Returned(v.xs[i + 1], "item")
                         ELSE Raised("IndexError", <<"l", "i", "s", "t", " ", "i", "n", "d", "e", "x", " ", "o", "u", "t", " ", "o", "f", " ", "r", "a", "n", "g", "e">>)
      [] v.t = "str"  -> IF i < Len(v.s) THEN Returned(PyStr(<<v.s[i + 1]>>), "item")
                         ELSE Raised("IndexError", <<"s", "t", "r", "i", "n", "g", " ", "i", "n", "d", "e", "x", " ", "o", "u", "t", " ", "o", "f", " ", "r", "a", "n", "g", "e">>)
      [] OTHER        -> Raised("TypeError", <<"n", "o", "t", " ", "s", "u", "b", "s", "c", "r", "i", "p", "t", "a", "b", "l", "e">>)

\* draw.text(xy, text, fill=, font=, anchor=): text has to be a str
draw_text(xy, text, fill, font, anchor) ==
    IF text.t = "str"
    THEN Returned([xy |-> xy, text |-> text.s, fill |-> fill, font |-> font,
                   anchor |-> anchor], "text")
    ELSE Raised("TypeError", <<"t", "e", "x", "t", " ", "i", "s", " ", "n", "o", " ", "s", "t", "r">>)

\* the colors of the gradient: template_type.lower() == "jazzcash"
palette(template_type) ==
    IF template_type.t # "str"
    THEN Raised("AttributeError", <<"n", "o", " ", "l", "o", "w", "e", "r">>)
    ELSE IF Lower(template_type.s) = <<"j", "a", "z", "z", "c", "a", "s", "h">>
         THEN Returned([color1 |-> <<255, 165, 0>>, color2 |-> <<255, 140, 0>>],
                       "jazzcash")
         ELSE Returned([color1 |-> <<34, 139, 34>>, color2 |-> <<0, 100, 0>>],
                       "else")

\* variant: the division rounds towards zero
gradient_channel_truncating(c1, c2, row) ==
    LET d == (c2 - c1) * row
    IN  IF d >= 0 THEN c1 + d \div height ELSE c1 - ((0 - d) \div height)

\* color1[c] + (color2[c] - color1[c]) * y // height: one channel of the
\* fill of row y, // rounding towards minus infinity
gradient_channel(c1, c2, row) == c1 + ((c2 - c1) * row) \div height

\* fill=(r, g, b) of the line of row y
gradient_fill_of(colors, row) ==
    [c \in 1..3 |-> gradient_channel(colors.color1[c], colors.color2[c], row)]

\* template_type.title() if template_type else "Payment App"
brand_text(template_type) ==
    IF Truthy(template_type) THEN Title(template_type.s) ELSE <<"P", "a", "y", "m", "e", "n", "t", " ", "A", "p", "p">>

\* phone_numbers[0] if phone_numbers else ''
receiver_phone(phone_numbers) ==
    IF Truthy(phone_numbers) THEN py_item(phone_numbers, 0)
    ELSE Returned(PyStr(<<>>), "empty")

\* variant: the sender's phone is the first entry like the receiver's
sender_phone_first(phone_numbers) ==
    LET n == py_len(phone_numbers)
    IN  IF n.exc # "" THEN n
        ELSE IF Truthy(phone_numbers) THEN py_item(phone_numbers, 0)
        ELSE Returned(PyStr(<<>>), "empty")

\* phone_numbers[1] if len(phone_numbers) > 1 else phone_numbers[0] if
\* phone_numbers else ''
sender_phone(phone_numbers) ==
    LET n == py_len(phone_numbers)
    IN  IF n.exc # "" THEN n
        ELSE IF n.val > 1 THEN py_item(phone_numbers, 1)
        ELSE IF Truthy(phone_numbers) THEN py_item(phone_numbers, 0)
        ELSE Returned(PyStr(<<>>), "empty")

\* a statement that runs only when its value came about: the exception of
\* the value, or the statement on the value
Then(r, text_of_value) == IF r.exc # "" THEN <<r>> ELSE text_of_value

\* the statements of the body from the title to the branding, in order:
\* each one the text it draws, or the exception it raises
draw_statements(edited_data, template_type, now) ==
    LET status == GetOr(edited_data, "status", PyStr(<<"T", "r", "a", "n", "s", "a", "c", "t", "i", "o", "n", " ", "S", "u", "c", "c", "e", "s", "s", "f", "u", "l">>))
        tid == GetOr(edited_data, "transaction_id", PyStr(<<>>))
        date == GetOr(edited_data, "date", PyStr(now))
        amount == GetOr(edited_data, "amount", PyStr(<<"R", "s", ".", " ", "0", ".", "0", "0">>))
        method == GetOr(edited_data, "payment_method", PyStr(<<"Q", "R", " ", "P", "a", "y", "m", "e", "n", "t">>))
        fee == GetOr(edited_data, "fee", PyStr(<<"R", "s", ".", " ", "0", ".", "0", "0">>))
        receiver == GetOr(edited_data, "receiver", PyStr(<<"R", "e", "c", "e", "i", "v", "e", "r", " ", "N", "a", "m", "e">>))
        phone_numbers == GetOr(edited_data, "phone_numbers", PyList(<<>>))
        to_phone == receiver_phone(phone_numbers)
        sender == GetOr(edited_data, "sender", PyStr(<<"S", "e", "n", "d", "e", "r", " ", "N", "a", "m", "e">>))
        from_phone == sender_phone(phone_numbers)
    IN  <<draw_text(<<width \div 2, 50>>, status, "white", "title_font", "mm")>>
        \o (IF Truthy(tid)
            THEN <<draw_text(<<width \div 2, 120>>,
                             PyStr(<<"T", "I", "D", ":", " ">> \o Format(tid)),
                             "black", "text_font", "mm")>>
            ELSE <<>>)
        \o <<draw_text(<<width \div 2, 145>>, date, "gray", "text_font", "mm"),
             draw_text(<<width \div 2, 220>>, amount, "black", "large_font", "mm"),
             draw_text(<<width \div 2, 260>>, method, "gray", "text_font", "mm"),
             draw_text(<<70, 320>>, PyStr(<<"F", "e", "e">>), "black", "text_font", "la"),
             draw_text(<<width - 70, 320>>, fee, "black", "text_font", "rm")>>
        \o Then(to_phone,
             <<draw_text(<<70, 370>>, PyStr(<<"T", "o">>), "black", "text_font", "la"),
               draw_text(<<width - 70, 370>>, receiver, "black", "text_font", "rm")>>
             \o (IF Truthy(to_phone.val)
                 THEN <<draw_text(<<width - 70, 395>>, to_phone.val, "gray",
                                  "text_font", "rm")>>
                 ELSE <<>>))
        \o Then(from_phone,
             <<draw_text(<<70, 450>>, PyStr(<<"F", "r", "o", "m">>), "black", "text_font", "la"),
               draw_text(<<width - 70, 450>>, sender, "black", "text_font", "rm")>>
             \o (IF Truthy(from_phone.val)
                 THEN <<draw_text(<<width - 70, 475>>, from_phone.val, "gray",
                                  "text_font", "rm")>>
                 ELSE <<>>))
        \o <<draw_text(<<width \div 2, height - 30>>,
                       PyStr(<<"S", "e", "c", "u", "r", "e", "l", "y", " ", "p", "a", "i", "d", " ", "v", "i", "a", " ">> \o brand_text(template_type)),
                       "white", "text_font", "mm")>>

\* generate_new_screenshot(edited_data, template_type): the data URL of the
\* PNG, or None when a statement of the body raised.  fonts_found: whether
\* the DejaVu files load (otherwise ImageFont.load_default() is used).
generate_new_screenshot(edited_data, template_type, fonts_found, now) ==
    LET colors == palette(template_type)
        statements == draw_statements(edited_data, template_type, now)
    IN  IF colors.exc # "" \/ \E i \in DOMAIN statements : statements[i].exc # ""
        THEN None
        ELSE [t |-> "data_url",
              mime |-> "image/png",
              size |-> <<width, height>>,
              gradient |-> colors.val,
              fonts |-> IF fonts_found THEN "DejaVuSans" ELSE "default",
              content_rect |-> [rect |-> <<50, 80, width - 50, height - 80>>,
                                radius |-> 15, fill |-> "white"],
              lines |-> <<<<70, 345, width - 70, 345>>,
                          <<70, 425, width - 70, 425>>>>,
              texts |-> [i \in DOMAIN statements |-> statements[i].val]]

\* bool(screenshot_url)
url_truthy(screenshot_url) == screenshot_url # None

(***************************************************************************)
(* Texts for parse_text_manually called on its own.                        *)
(***************************************************************************)
\* texts without any keyword: letters, blanks, line ends
NoiseAlphabet == {"a", " ", "\n"}
NoiseTexts == SeqsUpTo(NoiseAlphabet, MaxNoiseLen)
                \cup {<<"h", "e", "l", "l", "o", " ", "w", "o", "r", "l", "d", "\n", "x", "y", "z">>,
                   <<"T", "h", "a", "n", "k", " ", "y", "o", "u", "!", "\n", "-", "-">>}

\* an amount, and what may stand before and after it
AmountCore == <<"R", "s", ".", " ", "1", ",", "2", "3", "4", ".", "5", "0">>
AmountPrefixes == {<<>>,
                  <<"P", "a", "i", "d", " ">>,
                  <<"P", "K", "R", " ", "5", " ">>,
                  <<"R", "s", " ", "7", "\n">>,
                  <<"r", "s", ".">>,
                  <<"F", "e", "e", ":", " ">>,
                  <<"R", "S", ",">>}
AmountSuffixes == {<<>>,
                  <<"0">>,
                  <<".", "5">>,
                  <<",">>,
                  <<" ", "P", "K", "R", " ", "9">>,
                  <<"\n", "x">>}
AmountTexts ==
    {pre \o AmountCore \o post :
        pre \in AmountPrefixes, post \in AmountSuffixes}

\* two spellings of one phone number
PhoneIntl == <<"+", "9", "2", "3", "0", "0", "1", "2", "3", "4", "5", "6", "7">>
PhoneLocal == <<"0", "3", "0", "0", "1", "2", "3", "4", "5", "6", "7">>
PhoneTexts ==
    {PhoneIntl \o sep \o PhoneLocal : sep \in {<<" ">>, <<"\n">>, <<" ", "a", "n", "d", " ">>}}
      \cup {PhoneLocal \o <<" ">> \o PhoneIntl,
            PhoneLocal,
            PhoneLocal \o <<"\n">> \o PhoneLocal,
            PhoneIntl}

\* the lines of a receiver, and the lines that may stand around them
ToLine == <<"T", "o">>
ReceiverLine == <<"B", "i", "l", "a", "l", " ", "S", "t", "o", "r", "e">>
TotalLine == <<"T", "o", "t", "a", "l", " ", "A", "m", "o", "u", "n", "t", " ", "T", "o", " ", "P", "a", "y">>
FromLine == <<"F", "r", "o", "m">>
SenderLine == <<"A", "h", "m", "e", "d", " ", "K", "h", "a", "n">>
LinesBefore == {<<>>,
               <<"T", "o", "t", "a", "l", " ", "A", "m", "o", "u", "n", "t", " ", "T", "o", " ", "P", "a", "y", "\n">>,
               <<"T", "o", "\n", "A", "l", "i", "\n">>,
               <<"f", "r", "o", "m", "\n", "B", "o", "b", "\n">>}
LinesAfter == {<<>>,
              <<"\n", "T", "h", "a", "n", "k", "s">>,
              <<"\n", "0", "3", "0", "0", "1", "2", "3", "4", "5", "6", "7">>,
              <<"\n", "T", "o", "t", "a", "l", " ", "A", "m", "o", "u", "n", "t", " ", "T", "o", " ", "P", "a", "y", "\n", "x">>,
              <<"\n", "f", "r", "o", "m", "\n", "B", "o", "b">>,
              <<"\n">>}
ReceiverTexts ==
    {pre \o ToLine \o <<"\n">> \o ReceiverLine \o post :
        pre \in LinesBefore, post \in LinesAfter}
      \cup {TotalLine \o <<"\n">> \o ReceiverLine,
            TotalLine \o <<"\n">> \o ReceiverLine \o <<"\n">> \o TotalLine,
            TotalLine}
SenderTexts ==
    {pre \o FromLine \o <<"\n">> \o SenderLine \o post :
        pre \in LinesBefore, post \in LinesAfter}
      \cup {FromLine \o <<"\n">> \o PhoneLocal,
            FromLine \o <<"\n">> \o PhoneLocal \o <<"\n">> \o SenderLine,
            FromLine \o <<"\n", "x", " ">> \o PhoneLocal,
            FromLine}

\* texts in which several patterns of one field match, the later pattern
\* of the list further to the left
PriorityText == <<"R", "e", "f", ":", " ", "B", "2", " ", "P", "K", "R", " ", "5", " ", "C", "h", "a", "r", "g", "e", "s", ":", " ", "R", "s", " ", "3", "\n", "T", "I", "D", ":", " ", "A", "1", " ", "F", "e", "e", ":", " ", "R", "s", " ", "2">>
PriorityTexts ==
    {PriorityText,
     <<"1", "/", "2", "/", "2", "0", "2", "6", " ", "1", "0", ":", "3", "0", " ", "O", "n", " ", "M", "a", "r", "c", "h", " ", "5", ",", " ", "2", "0", "2", "6", " ", "a", "t", " ", "1", "0", ":", "3", "0">>,
     <<"T", "r", "a", "n", "s", "a", "c", "t", "i", "o", "n", " ", "I", "D", ":", " ", "T", "7", " ", "R", "e", "f", " ", "B", "2">>,
     <<"P", "K", "R", " ", "5">>,
     <<"C", "h", "a", "r", "g", "e", "s", " ", "R", "s", ".", "4">>}

\* texts whose identifier follows the marker "Reference"
ReferenceText == <<"R", "e", "f", "e", "r", "e", "n", "c", "e", ":", " ", "X", "9">>
ReferenceTexts ==
    {ReferenceText,
     <<"P", "a", "i", "d", "\n", "R", "e", "f", "e", "r", "e", "n", "c", "e", ":", " ", "X", "9", "\n", "T", "h", "a", "n", "k", "s">>,
     <<"r", "e", "f", "e", "r", "e", "n", "c", "e", ":", "7">>}

\* texts with status keywords on several lines and several on one line
StatusText == <<"P", "a", "y", "m", "e", "n", "t", " ", "F", "a", "i", "l", "e", "d", "\n", "P", "a", "i", "d", " ", "S", "u", "c", "c", "e", "s", "s", "f", "u", "l", "\n", "T", "h", "a", "n", "k", "s">>
StatusTexts ==
    {StatusText,
     <<"S", "u", "c", "c", "e", "s", "s", "f", "u", "l", "\n", "f", "a", "i", "l", "e", "d">>,
     <<"p", "e", "n", "d", "i", "n", "g", " ", "a", "n", "d", " ", "F", "A", "I", "L", "E", "D">>,
     <<"P", "e", "n", "d", "i", "n", "g", "\n", "x", "y", "z">>,
     <<"f", "a", "i", "l", "e", "d", " ", "s", "u", "c", "c", "e", "s", "s", "f", "u", "l", "\n", "P", "E", "N", "D", "I", "N", "G", "\n">>,
     <<"U", "n", "s", "u", "c", "c", "e", "s", "s", "f", "u", "l">>}

\* texts with several terms of the vocabulary of payment methods
MethodText == <<"m", "y", " ", "w", "a", "l", "l", "e", "t", ",", " ", "E", "a", "s", "y", "P", "a", "i", "s", "a">>
MethodTexts ==
    {MethodText,
     <<"P", "a", "i", "d", " ", "v", "i", "a", " ", "H", "B", "L", " ", "b", "a", "n", "k">>,
     <<"B", "a", "n", "k", " ", "A", "l", "f", "a", "l", "a", "h", "\n", "J", "A", "Z", "Z", "C", "A", "S", "H">>,
     <<"d", "o", "u", "b", "l", "e">>,
     <<"W", "a", "l", "l", "e", "t">>}

ParserTexts ==
    NoiseTexts \cup SampleTexts \cup AmountTexts \cup PhoneTexts
      \cup ReceiverTexts \cup SenderTexts \cup PriorityTexts
      \cup ReferenceTexts \cup StatusTexts \cup MethodTexts

(***************************************************************************)
(* Requests for generate_screenshot and generate_new_screenshot.           *)
(***************************************************************************)
\* datetime.now().strftime("%B %d, %Y at %H:%M") at the time of the call
Now == <<"N", "o", "v", "e", "m", "b", "e", "r", " ", "0", "4", ",", " ", "2", "0", "2", "6", " ", "a", "t", " ", "1", "2", ":", "0", "0">>

\* an edited record with every field filled in
FullRecord ==
    [k \in PaymentKeys |->
        CASE k = "transaction_id" -> PyStr(<<"A", "1">>)
          [] k = "amount" -> PyStr(<<"R", "s", ".", " ", "5", "0">>)
          [] k = "date" -> PyStr(<<"1", "/", "2", "/", "2", "0", "2", "6", " ", "1", "0", ":", "3", "0">>)
          [] k = "sender" -> PyStr(<<"A", "l", "i">>)
          [] k = "receiver" -> PyStr(<<"B", "o", "b">>)
          [] k = "fee" -> PyStr(<<"R", "s", ".", " ", "2">>)
          [] k = "payment_method" -> PyStr(<<"J", "a", "z", "z", "c", "a", "s", "h">>)
          [] k = "status" -> PyStr(<<"F", "a", "i", "l", "e", "d">>)
          [] k = "phone_numbers" -> PyList(<<PyStr(<<"0", "3", "0", "0">>), PyStr(<<"0", "3", "0", "1">>)>>)
          [] k = "all_text" -> PyStr(<<"P", "a", "i", "d">>)
          [] OTHER -> None]

\* the record parse_text_manually builds when nothing matches
NullRecord ==
    [k \in PaymentKeys |->
        IF k = "phone_numbers" THEN PyList(<<>>)
        ELSE IF k = "all_text" THEN PyStr(<<>>)
        ELSE None]

\* the fields generate_new_screenshot reads
DrawnKeys == {"status", "transaction_id", "date", "amount", "payment_method",
              "fee", "receiver", "sender", "phone_numbers"}

\* d without the key k
Without(d, k) == [j \in DOMAIN d \ {k} |-> d[j]]

\* d with k set to v
With(d, k, v) == [j \in DOMAIN d \cup {k} |-> IF j = k THEN v ELSE d[j]]

EditedRecords ==
    {EmptyDict, FullRecord, NullRecord}
      \cup {With(FullRecord, k, None) : k \in DrawnKeys}
      \cup {With(FullRecord, k, PyStr(<<>>)) : k \in DrawnKeys \ {"phone_numbers"}}
      \cup {Without(FullRecord, k) : k \in DrawnKeys}
      \cup {With(FullRecord, "phone_numbers", PyList(xs)) :
               xs \in {<<>>, <<PyStr(<<"0", "3", "0", "0">>)>>, <<PyInt(3)>>,
                       <<PyStr(<<"0", "3", "0", "0">>), PyStr(<<"0", "3", "0", "1">>),
                         PyStr(<<"0", "3", "0", "2">>)>>}}
      \cup {With(FullRecord, "amount", PyInt(5)),
            With(FullRecord, "transaction_id", PyInt(7))}

\* the template selector: a name, "", null, or no selector at all
NoTemplate == [t |-> "absent"]
Templates == {NoTemplate, PyStr(<<"j", "a", "z", "z", "c", "a", "s", "h">>), PyStr(<<"J", "a", "z", "z", "C", "a", "s", "h">>),
              PyStr(<<"e", "a", "s", "y", "p", "a", "i", "s", "a">>), PyStr(<<>>), None}

\* request.json of a synthesis request: an edited record with its selector,
\* or JSON that is no object
SynthBodies ==
    {PyDict(IF tpl = NoTemplate THEN d ELSE With(d, "template_type", tpl)) :
        d \in EditedRecords, tpl \in Templates}
      \cup {None, PyList(<<>>), PyList(<<PyStr(<<"x">>)>>)}

(***************************************************************************)
(* The state.                                                              *)
(***************************************************************************)
VARIABLES
    panel,              \* the source file that runs: "complete" or "single"
    GEMINI_AVAILABLE,   \* the module-level flag, set once at import
    pc,                 \* where upload_file stands
    image,              \* file_data of the request
    gemini_data,        \* upload_file's local, None before it is assigned
    extracted_data,     \* upload_file's local
    extraction_method,  \* upload_file's local
    tesseract_text,     \* upload_file's local, None before it is assigned
    result,             \* the response of the request, None until it is sent
    caller,             \* who called extract_with_gemini
    gpc,                \* where extract_with_gemini stands
    response,           \* extract_with_gemini's local, None before assigned
    gemini_ret,         \* what extract_with_gemini returned or raised
    tpc,                \* where extract_with_tesseract stands
    processed_image,    \* extract_with_tesseract's local
    config,             \* index into configs of the loop
    best_text,          \* extract_with_tesseract's local
    tess_ret,           \* what extract_with_tesseract returned or raised
    ocr_script,         \* the outcomes of the OCR engine when fixed beforehand
    parser_text,        \* parse_text_manually's parameter text, called on its own
    parser_data,        \* what that call returned, None before it returns
    synth_pc,           \* where generate_screenshot stands
    synth_data,         \* request.json; edited_data of generate_new_screenshot
    template_type,      \* generate_screenshot's local; the second argument
    fonts_found,        \* whether the DejaVu font files are installed
    screenshot_url,     \* what generate_new_screenshot returned
    synth_result,       \* the response of generate_screenshot
    frames,             \* the requests in flight at once, each with its locals
    gradient_y,         \* y of the gradient loop: the next row to draw
    gradient_fill,      \* the fill of the row drawn last, None before row 0
    calls               \* the external calls of the request, in order

gradientVars == <<gradient_y, gradient_fill>>
synthVars == <<synth_pc, synth_data, template_type, fonts_found,
               screenshot_url, synth_result>>
\* what no step of an upload writes
envVars == <<panel, GEMINI_AVAILABLE, ocr_script, parser_text, parser_data,
             synthVars, frames, gradientVars>>
uploadVars == <<pc, image, gemini_data, extracted_data, extraction_method,
                tesseract_text, result>>
geminiVars == <<caller, gpc, response, gemini_ret>>
tessVars == <<tpc, processed_image, config, best_text, tess_ret>>
vars == <<envVars, uploadVars, geminiVars, tessVars, calls>>

\* the gradient loop is not looked at row by row
GradientIdle ==
    /\ gradient_y = 0
    /\ gradient_fill = None

\* parse_text_manually is not called on its own, and no requests run at
\* the same time
ParserIdle ==
    /\ parser_text = <<>>
    /\ parser_data = None
    /\ frames = <<>>

\* no synthesis request is under way
SynthIdle ==
    /\ synth_pc = "idle"
    /\ synth_data = None
    /\ template_type = None
    /\ fonts_found = TRUE
    /\ screenshot_url = None
    /\ synth_result = None

\* the frames of a request that has not started
Idle ==
    /\ gemini_data = None
    /\ extracted_data = PyDict(EmptyDict)
    /\ extraction_method = ""
    /\ tesseract_text = None
    /\ result = None
    /\ gpc = "idle"
    /\ response = None
    /\ gemini_ret = None
    /\ tpc = "idle"
    /\ processed_image = ""
    /\ config = 0
    /\ best_text = PyStr(<<>>)
    /\ tess_ret = None
    /\ calls = <<>>

\* after import: genai.configure either went through or raised
Init ==
    /\ panel \in {"complete", "single"}
    /\ GEMINI_AVAILABLE \in BOOLEAN
    /\ pc = "idle"
    /\ image \in Images
    /\ caller = "upload_file"
    /\ ocr_script = <<>>
    /\ ParserIdle
    /\ SynthIdle
    /\ Idle
    /\ GradientIdle

(***************************************************************************)
(* extract_with_gemini, step by step.                                      *)
(***************************************************************************)
\* from the entry to the call of generate_content: the flag, Image.open
GeminiEnter ==
    /\ gpc = "call"
    /\ IF ~GEMINI_AVAILABLE
       THEN /\ gemini_ret' = Returned(EmptyDict, "flag_off")
            /\ gpc' = "ret"
            /\ calls' = calls
       ELSE IF ~image.decodable
       THEN /\ gemini_ret' = gemini_except_outer(
                   Raised("UnidentifiedImageError",
                          <<"b", "a", "d", " ", "i", "m", "a", "g", "e">>))
            /\ gpc' = "ret"
            /\ calls' = calls
       ELSE /\ gpc' = "wait"
            /\ calls' = Append(calls, "gemini")
            /\ gemini_ret' = gemini_ret
    /\ UNCHANGED <<envVars, uploadVars, caller, response, tessVars>>

\* generate_content raises (network, auth, quota)
ServiceRaises ==
    /\ gpc = "wait"
    /\ \E msg \in ErrorMessages :
           gemini_ret' = gemini_except_outer(Raised("Exception", msg))
    /\ gpc' = "ret"
    /\ UNCHANGED <<envVars, uploadVars, caller, response, tessVars, calls>>

\* generate_content returns a response
ServiceResponds ==
    /\ gpc = "wait"
    /\ response' \in Responses
    /\ gpc' = "parse"
    /\ UNCHANGED <<envVars, uploadVars, caller, gemini_ret, tessVars, calls>>

\* the inner try and the handlers, to the return
GeminiParse ==
    /\ gpc = "parse"
    /\ gemini_ret' = gemini_after_reply(response)
    /\ gpc' = "ret"
    /\ UNCHANGED <<envVars, uploadVars, caller, response, tessVars, calls>>

(***************************************************************************)
(* extract_with_tesseract, step by step.                                   *)
(***************************************************************************)
\* preprocessing, to the start of the loop over configs
TessEnter ==
    /\ tpc = "call"
    /\ LET p == preprocess_image_for_ocr(panel, image)
       IN  IF p.exc # ""
           THEN /\ tess_ret' = tesseract_except_outer(p)
                /\ tpc' = "ret"
                /\ UNCHANGED <<processed_image, config, best_text>>
           ELSE IF p.val = "None"
           THEN /\ tess_ret' = Returned(<<>>, "none_image")
                /\ tpc' = "ret"
                /\ processed_image' = p.val
                /\ UNCHANGED <<config, best_text>>
           ELSE /\ processed_image' = p.val
                /\ best_text' = PyStr(<<>>)
                /\ config' = 1
                /\ tpc' = "loop"
                /\ tess_ret' = tess_ret
    /\ UNCHANGED <<envVars, uploadVars, geminiVars, calls>>

\* one iteration of the loop: image_to_string under configs[config]
TessConfig(out) ==
    /\ tpc = "loop"
    /\ config <= Len(Configs)
    /\ best_text' = PyStr(keep_best(best_text.s, out))
    /\ config' = config + 1
    /\ calls' = Append(calls, Configs[config])
    /\ UNCHANGED <<envVars, uploadVars, geminiVars, tpc, processed_image,
                   tess_ret>>

\* after the loop: return best_text
TessReturn ==
    /\ tpc = "loop"
    /\ config > Len(Configs)
    /\ tess_ret' = tesseract_except_outer(Returned(best_text.s, "loop_end"))
    /\ tpc' = "ret"
    /\ UNCHANGED <<envVars, uploadVars, geminiVars, processed_image, config,
                   best_text, calls>>

(***************************************************************************)
(* upload_file, step by step.                                              *)
(***************************************************************************)
\* the response for an exception that reaches upload_file's handler
Error500 == [code |-> 500, success |-> FALSE,
             extracted_data |-> PyDict(EmptyDict), extraction_method |-> ""]

\* a request the validation turns away
UploadReject ==
    /\ pc = "idle"
    /\ \E reason \in RejectReasons :
           result' = [code |-> 400, success |-> FALSE,
                      extracted_data |-> PyDict(EmptyDict),
                      extraction_method |-> ""]
    /\ pc' = "done"
    /\ UNCHANGED <<envVars, image, gemini_data, extracted_data,
                   extraction_method, tesseract_text, geminiVars, tessVars,
                   calls>>

\* a request that passes the validation: file.read(), the two locals
UploadStart ==
    /\ pc = "idle"
    /\ image' \in Images
    /\ extraction_method' = "tesseract"
    /\ extracted_data' = PyDict(EmptyDict)
    /\ pc' = "gemini"
    /\ UNCHANGED <<envVars, gemini_data, tesseract_text, result, geminiVars,
                   tessVars, calls>>

\* if GEMINI_AVAILABLE: call extract_with_gemini
UploadTryGemini ==
    /\ pc = "gemini"
    /\ IF GEMINI_AVAILABLE
       THEN /\ pc' = "gemini_wait"
            /\ gpc' = "call"
       ELSE /\ pc' = "fallback"
            /\ gpc' = gpc
    /\ UNCHANGED <<envVars, image, gemini_data, extracted_data,
                   extraction_method, tesseract_text, result, caller,
                   response, gemini_ret, tessVars, calls>>

\* extract_with_gemini is back: accept its mapping or not
UploadDecide ==
    /\ pc = "gemini_wait"
    /\ gpc = "ret"
    /\ gpc' = "idle"
    /\ response' = None
    /\ IF gemini_ret.exc # ""
       THEN /\ result' = Error500
            /\ pc' = "done"
            /\ UNCHANGED <<gemini_data, extracted_data, extraction_method>>
       ELSE /\ gemini_data' = PyDict(gemini_ret.val)
            /\ LET d == upload_decide(gemini_ret.val, extracted_data.m,
                                      extraction_method)
               IN  /\ extracted_data' = PyDict(d.extracted_data)
                   /\ extraction_method' = d.extraction_method
            /\ pc' = "fallback"
            /\ result' = result
    /\ UNCHANGED <<envVars, image, tesseract_text, caller, gemini_ret,
                   tessVars, calls>>

\* if not extracted_data.get('all_text'): call extract_with_tesseract
UploadFallback ==
    /\ pc = "fallback"
    /\ IF needs_fallback(extracted_data.m)
       THEN /\ pc' = "tess_wait"
            /\ tpc' = "call"
       ELSE /\ pc' = "respond"
            /\ tpc' = tpc
    /\ UNCHANGED <<envVars, image, gemini_data, extracted_data,
                   extraction_method, tesseract_text, result, geminiVars,
                   processed_image, config, best_text, tess_ret, calls>>

\* extract_with_tesseract is back: parse_text_manually
UploadParse ==
    /\ pc = "tess_wait"
    /\ tpc = "ret"
    /\ tpc' = "idle"
    /\ IF tess_ret.exc # ""
       THEN /\ result' = Error500
            /\ pc' = "done"
            /\ UNCHANGED <<tesseract_text, extracted_data, extraction_method>>
       ELSE /\ tesseract_text' = PyStr(tess_ret.val)
            /\ \E data \in ParsedRecords(tess_ret.val) :
                   extracted_data' = PyDict(data)
            /\ extraction_method' = "tesseract"
            /\ pc' = "respond"
            /\ result' = result
    /\ UNCHANGED <<envVars, image, gemini_data, geminiVars, processed_image,
                   config, best_text, tess_ret, calls>>

\* return jsonify({'success': True, ...})
UploadRespond ==
    /\ pc = "respond"
    /\ result' = [code |-> 200, success |-> TRUE,
                  extracted_data |-> extracted_data,
                  extraction_method |-> extraction_method]
    /\ pc' = "done"
    /\ UNCHANGED <<envVars, image, gemini_data, extracted_data,
                   extraction_method, tesseract_text, geminiVars, tessVars,
                   calls>>

\* the request is over and its locals are gone
UploadFinish ==
    /\ pc = "done"
    /\ pc' = "idle"
    /\ gemini_data' = None
    /\ extracted_data' = PyDict(EmptyDict)
    /\ extraction_method' = ""
    /\ tesseract_text' = None
    /\ result' = None
    /\ gpc' = "idle"
    /\ response' = None
    /\ gemini_ret' = None
    /\ tpc' = "idle"
    /\ processed_image' = ""
    /\ config' = 0
    /\ best_text' = PyStr(<<>>)
    /\ tess_ret' = None
    /\ calls' = <<>>
    /\ UNCHANGED <<envVars, image, caller>>

\* the OCR engine answers the call of the current configuration
TessEngine == \E out \in OcrOutcomes : TessConfig(out)

\* the steps the process takes by itself (the OCR engine runs in it)
Program ==
    \/ GeminiEnter \/ GeminiParse
    \/ TessEnter \/ TessEngine \/ TessReturn
    \/ UploadTryGemini \/ UploadDecide \/ UploadFallback \/ UploadParse
    \/ UploadRespond \/ UploadFinish

\* the steps that wait for a client or for the remote service
Environment ==
    \/ UploadReject \/ UploadStart
    \/ ServiceRaises \/ ServiceResponds

Next == Program \/ Environment

Spec == Init /\ [][Next]_vars

\* the process, once it can take a step, takes it; neither a client nor the
\* remote service is obliged to act
FairSpec == Spec /\ WF_vars(Program)

(***************************************************************************)
(* extract_with_gemini called on its own, for every flag and image.        *)
(***************************************************************************)
InitAdapter ==
    /\ panel \in {"complete", "single"}
    /\ GEMINI_AVAILABLE \in BOOLEAN
    /\ pc = "direct"
    /\ image \in Images
    /\ caller = "direct"
    /\ ocr_script = <<>>
    /\ ParserIdle
    /\ SynthIdle
    /\ gemini_data = None
    /\ extracted_data = PyDict(EmptyDict)
    /\ extraction_method = ""
    /\ tesseract_text = None
    /\ result = None
    /\ gpc = "call"
    /\ response = None
    /\ gemini_ret = None
    /\ tpc = "idle"
    /\ processed_image = ""
    /\ config = 0
    /\ best_text = PyStr(<<>>)
    /\ tess_ret = None
    /\ calls = <<>>
    /\ GradientIdle

NextAdapter == GeminiEnter \/ ServiceRaises \/ ServiceResponds \/ GeminiParse

AdapterSpec == InitAdapter /\ [][NextAdapter]_vars

(***************************************************************************)
(* extract_with_tesseract called on its own, for every image and every     *)
(* sequence of outcomes of the three recognition runs.                     *)
(***************************************************************************)
InitTesseract ==
    /\ panel \in {"complete", "single"}
    /\ GEMINI_AVAILABLE \in BOOLEAN
    /\ pc = "direct"
    /\ image \in Images
    /\ caller = "direct"
    /\ ocr_script \in [DOMAIN Configs -> OcrOutcomes]
    /\ ParserIdle
    /\ SynthIdle
    /\ gemini_data = None
    /\ extracted_data = PyDict(EmptyDict)
    /\ extraction_method = ""
    /\ tesseract_text = None
    /\ result = None
    /\ gpc = "idle"
    /\ response = None
    /\ gemini_ret = None
    /\ tpc = "call"
    /\ processed_image = ""
    /\ config = 0
    /\ best_text = PyStr(<<>>)
    /\ tess_ret = None
    /\ calls = <<>>
    /\ GradientIdle

\* the OCR engine answers as the script says
TessScripted == config \in DOMAIN ocr_script /\ TessConfig(ocr_script[config])

NextTesseract == TessEnter \/ TessScripted \/ TessReturn

TesseractSpec == InitTesseract /\ [][NextTesseract]_vars

(***************************************************************************)
(* parse_text_manually called on its own, for every text of ParserTexts.   *)
(***************************************************************************)
InitParser ==
    /\ frames = <<>>
    /\ panel = "complete"
    /\ GEMINI_AVAILABLE = TRUE
    /\ pc = "direct"
    /\ image = CHOOSE i \in Images : i.decodable /\ i.enhance_ok
    /\ caller = "direct"
    /\ ocr_script = <<>>
    /\ parser_text \in ParserTexts
    /\ parser_data = None
    /\ SynthIdle
    /\ Idle
    /\ GradientIdle

\* the call: from data = {...} to return data
ParseCall ==
    /\ caller = "direct"
    /\ parser_data = None
    /\ \E data \in ParserOutputs(parser_text) : parser_data' = PyDict(data)
    /\ UNCHANGED <<panel, GEMINI_AVAILABLE, ocr_script, parser_text,
                   synthVars, frames, gradientVars, uploadVars, geminiVars,
                   tessVars,
                   calls>>

NextParser == ParseCall

ParserSpec == InitParser /\ [][NextParser]_vars

(***************************************************************************)
(* generate_screenshot, step by step, and generate_new_screenshot called   *)
(* on its own.                                                             *)
(***************************************************************************)
\* the other variables of a synthesis step
notSynth == <<panel, GEMINI_AVAILABLE, ocr_script, parser_text, parser_data,
              frames, gradientVars, uploadVars, geminiVars, tessVars, calls>>

\* the responses of generate_screenshot
SynthError(code) == [code |-> code, success |-> FALSE, screenshot_url |-> None,
                     template_used |-> None]

\* if not data: 400
GenerateReject ==
    /\ synth_pc = "request"
    /\ ~Truthy(synth_data)
    /\ synth_result' = SynthError(400)
    /\ synth_pc' = "done"
    /\ UNCHANGED <<notSynth, synth_data, template_type, fonts_found,
                   screenshot_url>>

\* template_type = data.get('template_type', 'jazzcash'); a body that is
\* no object has no get, and the handler answers 500
GenerateStart ==
    /\ synth_pc = "request"
    /\ Truthy(synth_data)
    /\ IF synth_data.t # "dict"
       THEN /\ synth_result' = SynthError(500)
            /\ synth_pc' = "done"
            /\ template_type' = template_type
       ELSE /\ template_type' = GetOr(synth_data.m, "template_type",
                                      PyStr(<<"j", "a", "z", "z", "c", "a", "s", "h">>))
            /\ synth_pc' = "render"
            /\ synth_result' = synth_result
    /\ UNCHANGED <<notSynth, synth_data, fonts_found, screenshot_url>>

\* screenshot_url = generate_new_screenshot(data, template_type)
GenerateRender ==
    /\ synth_pc = "render"
    /\ screenshot_url' = generate_new_screenshot(synth_data.m, template_type,
                                                 fonts_found, Now)
    /\ synth_pc' = "respond"
    /\ UNCHANGED <<notSynth, synth_data, template_type, fonts_found,
                   synth_result>>

\* if screenshot_url: success, else 500
GenerateRespond ==
    /\ synth_pc = "respond"
    /\ synth_result' =
           IF url_truthy(screenshot_url)
           THEN [code |-> 200, success |-> TRUE,
                 screenshot_url |-> screenshot_url,
                 template_used |-> template_type]
           ELSE SynthError(500)
    /\ synth_pc' = "done"
    /\ UNCHANGED <<notSynth, synth_data, template_type, fonts_found,
                   screenshot_url>>

\* generate_new_screenshot called on its own
SynthDirect ==
    /\ synth_pc = "direct"
    /\ screenshot_url' = generate_new_screenshot(synth_data.m, template_type,
                                                 fonts_found, Now)
    /\ synth_pc' = "returned"
    /\ UNCHANGED <<notSynth, synth_data, template_type, fonts_found,
                   synth_result>>

\* a request with its body received, or a call with its two arguments (the
\* second one 'jazzcash' when it is left out)
InitSynth ==
    /\ panel = "complete"
    /\ GEMINI_AVAILABLE = TRUE
    /\ pc = "idle"
    /\ image = CHOOSE i \in Images : i.decodable /\ i.enhance_ok
    /\ caller = "upload_file"
    /\ ocr_script = <<>>
    /\ ParserIdle
    /\ Idle
    /\ fonts_found \in BOOLEAN
    /\ screenshot_url = None
    /\ synth_result = None
    /\ \/ /\ synth_pc = "request"
          /\ synth_data \in SynthBodies
          /\ template_type = None
       \/ /\ synth_pc = "direct"
          /\ synth_data \in {PyDict(d) : d \in EditedRecords}
          /\ template_type \in (Templates \ {NoTemplate})
    /\ GradientIdle

NextSynth ==
    \/ GenerateReject \/ GenerateStart \/ GenerateRender \/ GenerateRespond
    \/ SynthDirect

SynthSpec == InitSynth /\ [][NextSynth]_vars

(***************************************************************************)
(* The server under app.run(threaded=True): several requests run at once,  *)
(* each handler in its own thread with its own locals and its own request  *)
(* object; the module-level names are the same for all of them.            *)
(***************************************************************************)
Requests == 1..MaxRequests

\* extract_with_gemini as one call: the flag, Image.open, generate_content
\* with the outcome the service has for this request, the handlers
extract_with_gemini(flag, image_data, service) ==
    IF ~flag
    THEN Returned(EmptyDict, "flag_off")
    ELSE IF ~image_data.decodable
    THEN gemini_except_outer(
             Raised("UnidentifiedImageError",
                    <<"b", "a", "d", " ", "i", "m", "a", "g", "e">>))
    ELSE IF service.raises
    THEN gemini_except_outer(Raised("Exception", service.msg))
    ELSE gemini_after_reply(service.response)

\* best_text after the configurations from i on
RECURSIVE best_from(_, _, _)
best_from(best, outs, i) ==
    IF i > Len(Configs)
    THEN best
    ELSE best_from(keep_best(best, outs[i]), outs, i + 1)

\* extract_with_tesseract as one call, outs[i] being what image_to_string
\* does under configs[i] for this request
extract_with_tesseract(source, image_data, outs) ==
    LET p == preprocess_image_for_ocr(source, image_data)
    IN  IF p.exc # ""
        THEN tesseract_except_outer(p)
        ELSE IF p.val = "None"
        THEN Returned(<<>>, "none_image")
        ELSE tesseract_except_outer(
                 Returned(best_from(<<>>, outs, 1), "loop_end"))

\* the response of upload_file with the flag as the handler reads it
UploadAnswer(code, data, method, flag) ==
    [code |-> code, success |-> code = 200,
     extracted_data |-> data,
     extraction_method |-> method,
     gemini_available |-> flag]

\* one step of upload_file on its frame f: the validation, the vision path,
\* the fallback, the response.  flag is GEMINI_AVAILABLE as read in the step
upload_file(flag, f) ==
    CASE f.pc = "request" ->
           IF f.reject # ""
           THEN [f EXCEPT !.pc = "done",
                          !.result = UploadAnswer(400, PyDict(EmptyDict), "",
                                                  None)]
           ELSE [f EXCEPT !.pc = "gemini",
                          !.extraction_method = "tesseract",
                          !.extracted_data = PyDict(EmptyDict)]
      [] f.pc = "gemini" ->
           IF ~flag
           THEN [f EXCEPT !.pc = "fallback"]
           ELSE LET g == extract_with_gemini(flag, f.image, f.service)
                IN  IF g.exc # ""
                    THEN [f EXCEPT !.pc = "done",
                                   !.result = UploadAnswer(
                                       500, PyDict(EmptyDict), "", None)]
                    ELSE LET d == upload_decide(g.val, f.extracted_data.m,
                                                f.extraction_method)
                         IN  [f EXCEPT !.pc = "fallback",
                                       !.gemini_data = PyDict(g.val),
                                       !.extracted_data =
                                           PyDict(d.extracted_data),
                                       !.extraction_method =
                                           d.extraction_method]
      [] f.pc = "fallback" ->
           IF ~needs_fallback(f.extracted_data.m)
           THEN [f EXCEPT !.pc = "respond"]
           ELSE LET t == extract_with_tesseract(f.source, f.image, f.ocr)
                IN  IF t.exc # ""
                    THEN [f EXCEPT !.pc = "done",
                                   !.result = UploadAnswer(
                                       500, PyDict(EmptyDict), "", None)]
                    ELSE [f EXCEPT !.pc = "respond",
                                   !.tesseract_text = PyStr(t.val),
                                   !.extracted_data =
                                       PyDict(CHOOSE data \in
                                                  ParsedRecords(t.val) : TRUE),
                                   !.extraction_method = "tesseract"]
      [] f.pc = "respond" ->
           [f EXCEPT !.pc = "done",
                     !.result = UploadAnswer(200, f.extracted_data,
                                             f.extraction_method, flag)]

\* one step of generate_screenshot on its frame f
generate_screenshot(f, fonts, now) ==
    CASE f.pc = "request" ->
           IF ~Truthy(f.body)
           THEN [f EXCEPT !.pc = "done", !.result = SynthError(400)]
           ELSE IF f.body.t # "dict"
           THEN [f EXCEPT !.pc = "done", !.result = SynthError(500)]
           ELSE [f EXCEPT !.pc = "render",
                          !.template_type =
                              GetOr(f.body.m, "template_type",
                                    PyStr(<<"j", "a", "z", "z", "c", "a", "s", "h">>))]
      [] f.pc = "render" ->
           [f EXCEPT !.pc = "respond",
                     !.screenshot_url =
                         generate_new_screenshot(f.body.m, f.template_type,
                                                 fonts, now)]
      [] f.pc = "respond" ->
           [f EXCEPT !.pc = "done",
                     !.result =
                         IF url_truthy(f.screenshot_url)
                         THEN [code |-> 200, success |-> TRUE,
                               screenshot_url |-> f.screenshot_url,
                               template_used |-> f.template_type]
                         ELSE SynthError(500)]

\* one step of the handler of frame f
handler(flag, f, fonts, now) ==
    IF f.kind = "upload"
    THEN upload_file(flag, f)
    ELSE generate_screenshot(f, fonts, now)

\* a request as it arrives: what it carries, what the remote service and
\* the OCR engine will do for it, and the handler's locals not yet assigned;
\* source is the file whose handler serves it
Arrival(kind, reject, image_data, service, outs, body) ==
    [kind |-> kind, source |-> "complete", pc |-> "request", reject |-> reject,
     image |-> image_data, service |-> service, ocr |-> outs, body |-> body,
     gemini_data |-> None, extracted_data |-> None,
     extraction_method |-> "", tesseract_text |-> None,
     template_type |-> None, screenshot_url |-> None, result |-> None]

GoodImage == [decodable |-> TRUE, enhance_ok |-> TRUE]
Quota == [raises |-> TRUE, msg |-> <<"q", "u", "o", "t", "a">>,
          response |-> None]
Replies(text) == [raises |-> FALSE, msg |-> <<>>,
                  response |-> [readable |-> TRUE, text |-> text]]
Reads(text) == [err |-> FALSE, text |-> text]
Fails == [err |-> TRUE, text |-> <<>>]

\* uploads: one turned away, one the vision service answers with a record,
\* one it answers with prose, one it fails on, one that does not decode
UploadArrivals ==
    {Arrival("upload", "No file selected", GoodImage, Quota,
             <<Fails, Fails, Fails>>, None),
     Arrival("upload", "", GoodImage,
             Replies(<<"{", "\"", "a", "l", "l", "_", "t", "e", "x", "t", "\"", ":", " ", "\"", "P", "a", "i", "d", " ", "R", "s", ".", " ", "5", "\"", ",", " ", "\"", "a", "m", "o", "u", "n", "t", "\"", ":", " ", "\"", "R", "s", ".", " ", "5", "\"", "}">>),
             <<Reads(<<"a">>), Fails, Fails>>, None),
     Arrival("upload", "", GoodImage,
             Replies(<<"P", "a", "i", "d", " ", "R", "s", ".", " ", "5">>),
             <<Reads(<<"a">>), Reads(<<"T", "I", "D", ":", " ", "A", "1", "\n", "R", "s", ".", " ", "5", "0", "\n", "P", "a", "i", "d", " ", "S", "u", "c", "c", "e", "s", "s", "f", "u", "l">>),
               Fails>>, None),
     Arrival("upload", "", GoodImage, Quota,
             <<Fails, Reads(<<"j", "a", "z", "z", "c", "a", "s", "h", " ", "F", "e", "e", ":", " ", "R", "s", " ", "2">>), Reads(<<"a", " ">>)>>,
             None),
     Arrival("upload", "", [decodable |-> FALSE, enhance_ok |-> FALSE],
             Quota, <<Fails, Fails, Fails>>, None)}

\* synthesis requests: a full record, the record of a parse without
\* matches, a record without its amount under another template, no body
SynthArrivals ==
    {Arrival("synth", "", GoodImage, Quota, <<>>, b) :
        b \in {PyDict(FullRecord), PyDict(NullRecord),
               PyDict(With(Without(FullRecord, "amount"), "template_type",
                           PyStr(<<"e", "a", "s", "y", "p", "a", "i", "s", "a">>))),
               None}}

Arrivals == UploadArrivals \cup SynthArrivals

InitServer ==
    /\ panel = "complete"
    /\ GEMINI_AVAILABLE \in BOOLEAN
    /\ pc = "idle"
    /\ image = GoodImage
    /\ caller = "upload_file"
    /\ ocr_script = <<>>
    /\ parser_text = <<>>
    /\ parser_data = None
    /\ SynthIdle
    /\ Idle
    /\ frames \in [Requests -> Arrivals]
    /\ GradientIdle

\* variant: extracted_data and extraction_method are module-level names,
\* so an assignment by one handler is seen by all of them
Handle_module_level_locals(r) ==
    /\ frames[r].pc # "done"
    /\ LET f == handler(GEMINI_AVAILABLE, frames[r], fonts_found, Now)
       IN  frames' = [q \in Requests |->
                         IF q = r
                         THEN f
                         ELSE [frames[q] EXCEPT
                                  !.extracted_data = f.extracted_data,
                                  !.extraction_method = f.extraction_method]]
    /\ UNCHANGED <<panel, GEMINI_AVAILABLE, ocr_script, parser_text,
                   parser_data, synthVars, gradientVars, uploadVars,
                   geminiVars, tessVars,
                   calls>>

\* the thread of request r takes the next step of its handler
Handle(r) ==
    /\ frames[r].pc # "done"
    /\ frames' = [frames EXCEPT
                      ![r] = handler(GEMINI_AVAILABLE, frames[r], fonts_found,
                                     Now)]
    /\ UNCHANGED <<panel, GEMINI_AVAILABLE, ocr_script, parser_text,
                   parser_data, synthVars, gradientVars, uploadVars,
                   geminiVars, tessVars,
                   calls>>

NextServer == \E r \in Requests : Handle(r)

ServerSpec == InitServer /\ [][NextServer]_vars

(***************************************************************************)
(* The gradient loop of generate_new_screenshot, row by row.               *)
(***************************************************************************)
InitGradient ==
    /\ frames = <<>>
    /\ panel = "complete"
    /\ GEMINI_AVAILABLE = TRUE
    /\ pc = "idle"
    /\ image = CHOOSE i \in Images : i.decodable /\ i.enhance_ok
    /\ caller = "upload_file"
    /\ ocr_script = <<>>
    /\ parser_text = <<>>
    /\ parser_data = None
    /\ Idle
    /\ synth_pc = "gradient"
    /\ synth_data = PyDict(EmptyDict)
    /\ template_type \in {t \in Templates : t.t = "str"}
    /\ fonts_found = TRUE
    /\ screenshot_url = None
    /\ synth_result = None
    /\ GradientIdle

\* one iteration of for y in range(height): the line of row y is drawn
GradientLine ==
    /\ synth_pc = "gradient"
    /\ gradient_y < height
    /\ gradient_fill' = gradient_fill_of(palette(template_type).val, gradient_y)
    /\ gradient_y' = gradient_y + 1
    /\ UNCHANGED <<panel, GEMINI_AVAILABLE, ocr_script, parser_text,
                   parser_data, synthVars, frames, uploadVars, geminiVars,
                   tessVars, calls>>

NextGradient == GradientLine

GradientSpec == InitGradient /\ [][NextGradient]_vars

(***************************************************************************)
(* The two source files side by side: the same upload handled by the       *)
(* upload_file of each.                                                    *)
(***************************************************************************)
Sources == {"complete", "single"}

\* uploads of every kind of image, with the vision service failing,
\* answering with a record or answering with prose, and the OCR engine
\* reading nothing, one text or several
PanelArrivals ==
    {Arrival("upload", "", img, svc, outs, None) :
        img \in Images,
        svc \in {Quota,
                 Replies(<<"{", "\"", "a", "l", "l", "_", "t", "e", "x", "t", "\"", ":", " ", "\"", "P", "a", "i", "d", " ", "R", "s", ".", " ", "5", "\"", ",", " ", "\"", "a", "m", "o", "u", "n", "t", "\"", ":", " ", "\"", "R", "s", ".", " ", "5", "\"", "}">>),
                 Replies(<<"P", "a", "i", "d", " ", "R", "s", ".", " ", "5">>)},
        outs \in {<<Fails, Fails, Fails>>,
                  <<Reads(<<"a">>), Fails, Fails>>,
                  <<Reads(<<"a">>), Reads(<<"T", "I", "D", ":", " ", "A", "1", "\n", "R", "s", ".", " ", "5", "0", "\n", "P", "a", "i", "d", " ", "S", "u", "c", "c", "e", "s", "s", "f", "u", "l">>),
                    Reads(<<"a", " ">>)>>,
                  <<Fails, Reads(<<"j", "a", "z", "z", "c", "a", "s", "h", " ", "F", "e", "e", ":", " ", "R", "s", " ", "2">>), Reads(<<>>)>>}}
      \cup {Arrival("upload", "Invalid file type", GoodImage, Quota,
                    <<Fails, Fails, Fails>>, None)}

InitPanels ==
    /\ panel = "complete"
    /\ GEMINI_AVAILABLE \in BOOLEAN
    /\ pc = "idle"
    /\ image = GoodImage
    /\ caller = "upload_file"
    /\ ocr_script = <<>>
    /\ parser_text = <<>>
    /\ parser_data = None
    /\ SynthIdle
    /\ Idle
    /\ frames \in {[s \in Sources |-> [a EXCEPT !.source = s]] :
                      a \in PanelArrivals}
    /\ GradientIdle

\* the upload_file of source file s takes its next step
PanelStep(s) ==
    /\ frames[s].pc # "done"
    /\ frames' = [frames EXCEPT ![s] = upload_file(GEMINI_AVAILABLE, frames[s])]
    /\ UNCHANGED <<panel, GEMINI_AVAILABLE, ocr_script, parser_text,
                   parser_data, synthVars, gradientVars, uploadVars,
                   geminiVars, tessVars,
                   calls>>

NextPanels == \E s \in Sources : PanelStep(s)

PanelsSpec == InitPanels /\ [][NextPanels]_vars

(***************************************************************************)
(* Properties of upload_file.                                              *)
(***************************************************************************)
\* the request went through the pipeline and was answered with success
Served == pc = "done" /\ result.code = 200

\* the returned record is what parse_text_manually gives for the text the
\* OCR read in this request, and the method is the text recognition
FromParser ==
    /\ tesseract_text # None
    /\ result.extracted_data.m \in ParsedRecords(tesseract_text.s)
    /\ result.extraction_method = "tesseract"

\* the returned record is the mapping of extract_with_gemini, and no OCR ran
FromVision ==
    /\ gemini_data # None
    /\ result.extracted_data = gemini_data
    /\ result.extraction_method = "gemini"
    /\ tesseract_text = None

\* C1 as stated: the mapping of the vision adapter becomes the final record
\* only if it has no error key and a non-empty all_text; in every other case
\* the final record is the parser's output over the OCR text.
C1_NoErrorKey ==
    (Served /\ gemini_data # None) =>
        IF /\ "error" \notin DOMAIN gemini_data.m
           /\ Truthy(Get(gemini_data.m, "all_text"))
        THEN TRUE
        ELSE FromParser

\* C1 amended: the mapping of the vision adapter becomes the final record
\* exactly when its error value is absent or falsy (null, "", 0) and its
\* all_text value is truthy; in every other case the final record is the
\* parser's output over the OCR text.
C1_FalsyError ==
    (Served /\ gemini_data # None) =>
        IF /\ ~Truthy(Get(gemini_data.m, "error"))
           /\ Truthy(Get(gemini_data.m, "all_text"))
        THEN FromVision
        ELSE FromParser

\* a mapping with an error, a text and a further field was turned down
C1_Witness ==
    /\ Served
    /\ gemini_data # None
    /\ Truthy(Get(gemini_data.m, "error"))
    /\ Truthy(Get(gemini_data.m, "all_text"))
    /\ "amount" \in DOMAIN gemini_data.m
    /\ FromParser

\* C2 as stated: the record of every upload result has exactly the keys of
\* PaymentKeys, whichever path supplied it.
C2_FixedKeys ==
    Served => DOMAIN result.extracted_data.m = PaymentKeys

\* the reply of the vision service was malformed: extract_with_gemini left
\* through one of the two returns for a reply that is no JSON
Malformed ==
    /\ gemini_ret # None
    /\ gemini_ret.at \in {"no_json", "json_error"}

\* C3 as stated: when the reply of the vision service is malformed, the
\* final record is the parser's output over the OCR text and the method is
\* the text recognition.
C3_MalformedFallsBack ==
    (Served /\ Malformed) => FromParser

\* C3 amended: when the reply of the vision service is malformed, the
\* adapter returns a mapping whose only key is all_text; the fallback path
\* is taken only if that text is empty, otherwise the mapping is the final
\* record and the method is the vision.
C3_MalformedAsText ==
    (Served /\ Malformed) =>
        /\ DOMAIN gemini_ret.val = {"all_text"}
        /\ gemini_ret.val["all_text"].t = "str"
        /\ gemini_data = PyDict(gemini_ret.val)
        /\ IF gemini_ret.val["all_text"].s = <<>>
           THEN FromParser
           ELSE FromVision

\* a reply whose braces hold no JSON was answered as a vision result
C3_Witness ==
    /\ Served
    /\ Malformed
    /\ gemini_ret.at = "json_error"
    /\ gemini_ret.val["all_text"].s # <<>>
    /\ FromVision

\* extract_with_gemini left through its outer handler
VisionThrew ==
    /\ gemini_ret # None
    /\ gemini_ret.at \in {"exception", "raise"}

\* C4: if the call of the vision service throws inside the adapter, the
\* upload result is a success whose record is the parser's output over the
\* OCR text of the same request and whose method is the text recognition.
C4_ThrowFallsBack ==
    (pc = "done" /\ VisionThrew) =>
        /\ result.code = 200
        /\ result.success
        /\ FromParser
        /\ DOMAIN gemini_data.m = {"error"}

\* generate_content raised "quota" and the request was answered by the OCR
C4_Witness ==
    /\ pc = "done"
    /\ VisionThrew
    /\ calls # <<>>
    /\ calls[1] = "gemini"
    /\ gemini_ret.val["error"] = PyStr(<<"q", "u", "o", "t", "a">>)
    /\ result.code = 200
    /\ FromParser

\* C5: the method of every upload result is one of two values and names the
\* path that supplied the record: "gemini" exactly when the record is the
\* adapter's mapping, "tesseract" exactly when it is the parser's output.
C5_MethodNamesPath ==
    Served =>
        /\ result.extraction_method \in {"gemini", "tesseract"}
        /\ result.extraction_method = "gemini" <=> FromVision
        /\ result.extraction_method = "tesseract" <=> FromParser
        /\ FromVision <=> tesseract_text = None

\* the vision was asked, its mapping turned down, and the method says so
C5_Witness ==
    /\ Served
    /\ gemini_data # None
    /\ Truthy(Get(gemini_data.m, "all_text"))
    /\ result.extraction_method = "tesseract"
    /\ result.extracted_data # gemini_data

\* the record parse_text_manually builds for the empty text
EmptyRecord ==
    [k \in PaymentKeys |->
        IF k = "phone_numbers" THEN PyList(<<>>)
        ELSE IF k = "all_text" THEN PyStr(<<>>)
        ELSE None]

\* C6: every upload that reaches the pipeline is answered with success and
\* a record, whatever the adapters do; when the OCR yields nothing the
\* record has every field null or empty and all_text "", and this is what
\* an image that cannot be decoded gives.
C6_AlwaysARecord ==
    (pc = "done" /\ extraction_method # "") =>
        /\ result.code = 200
        /\ result.success
        /\ result.extracted_data.t = "dict"
        /\ "all_text" \in DOMAIN result.extracted_data.m
        /\ tesseract_text = PyStr(<<>>) =>
               result.extracted_data.m = EmptyRecord
        /\ ~image.decodable => tesseract_text = PyStr(<<>>)
        /\ (gemini_data = None \/ ~gemini_accepted(gemini_data.m)) =>
               tesseract_text # None

\* the flag is on, the image does not decode, and the answer is the record
\* of nulls
C6_Witness ==
    /\ pc = "done"
    /\ GEMINI_AVAILABLE
    /\ ~image.decodable
    /\ panel = "complete"
    /\ result.code = 200
    /\ result.extracted_data.m = EmptyRecord

\* C7 as stated: if the vision service never responds, the upload still
\* completes: a request waiting in generate_content is eventually answered.
C7_WaitIsBounded == (pc = "gemini_wait" /\ gpc = "wait") ~> (pc = "done")

(***************************************************************************)
(* Properties of extract_with_gemini.                                      *)
(***************************************************************************)
\* a dict of Python values
IsMapping(m) ==
    \A k \in DOMAIN m : m[k].t \in {"None", "str", "int", "bool", "list", "dict"}

\* C8: extract_with_gemini never raises: for every outcome it returns a
\* mapping, and when the flag is off it returns the empty mapping without
\* a call of the service.
C8_NeverRaises ==
    gpc = "ret" =>
        /\ gemini_ret.exc = ""
        /\ gemini_ret.at # "raise"
        /\ IsMapping(gemini_ret.val)
        /\ ~GEMINI_AVAILABLE => (gemini_ret.val = EmptyDict /\ calls = <<>>)
        /\ calls = <<>> => DOMAIN gemini_ret.val \in {{}, {"error"}}

\* the flag is off and the empty mapping came back with no call made
C8_Witness ==
    /\ caller = "direct"
    /\ gpc = "ret"
    /\ ~GEMINI_AVAILABLE
    /\ gemini_ret = Returned(EmptyDict, "flag_off")
    /\ calls = <<>>

\* the positions of a character in a text
Positions(text, c) == {i \in DOMAIN text : text[i] = c}

\* the text holds a "{" with a "}" somewhere after it
HasSpan(text) ==
    \E i \in Positions(text, "{") : \E j \in Positions(text, "}") : i < j

\* from the first "{" to the last "}"
Span(text) ==
    LET first == CHOOSE i \in Positions(text, "{") :
                     \A j \in Positions(text, "{") : i <= j
        last == CHOOSE i \in Positions(text, "}") :
                    \A j \in Positions(text, "}") : j <= i
    IN  SubSeq(text, first, last)

\* C9 as stated: when the reply has no {...} span, and when its span fails
\* JSON parsing, extract_with_gemini returns a mapping whose only key is
\* all_text and whose value is the full response text.
C9_FullText ==
    (gpc = "ret" /\ gemini_ret.at \in {"no_json", "json_error"}) =>
        gemini_ret.val = [k \in {"all_text"} |-> PyStr(response.text)]

\* C9 amended: the mapping has the only key all_text; when the reply has no
\* {...} span its value is the response text without leading and trailing
\* whitespace, and when the span fails JSON parsing its value is the full
\* response text.
C9_StrippedOrFull ==
    (gpc = "ret" /\ response # None /\ response.readable) =>
        IF ~HasSpan(response.text)
        THEN gemini_ret = Returned([k \in {"all_text"} |->
                                       PyStr(strip(response.text))], "no_json")
        ELSE IF ~json_loads(Span(response.text)).ok
        THEN gemini_ret = Returned([k \in {"all_text"} |->
                                       PyStr(response.text)], "json_error")
        ELSE gemini_ret.at = "json"

\* a reply without braces, with a blank around it, came back stripped
C9_Witness ==
    /\ caller = "direct"
    /\ gpc = "ret"
    /\ response # None
    /\ response.readable
    /\ ~HasSpan(response.text)
    /\ strip(response.text) # response.text
    /\ strip(response.text) # <<>>
    /\ gemini_ret.val = [k \in {"all_text"} |-> PyStr(strip(response.text))]

(***************************************************************************)
(* Properties of extract_with_tesseract.                                   *)
(***************************************************************************)
\* the configurations whose run did not raise
GoodConfigs == {i \in DOMAIN ocr_script : ~ocr_script[i].err}

StrippedLen(i) == Len(strip(ocr_script[i].text))

\* the earliest of the runs of greatest stripped length that did not raise
IsBest(i) ==
    /\ i \in GoodConfigs
    /\ \A j \in GoodConfigs :
           \/ StrippedLen(j) < StrippedLen(i)
           \/ StrippedLen(j) = StrippedLen(i) /\ i <= j

\* C10: extract_with_tesseract returns the output of the earliest run of
\* greatest stripped length among the runs that did not raise; a run that
\* raises is skipped and the others are still made; when every run raises
\* or yields whitespace only the result is "", and nothing is raised.
C10_BestOutput ==
    tpc = "ret" =>
        /\ tess_ret.exc = ""
        /\ tess_ret.at = "loop_end" =>
               /\ calls = Configs
               /\ IF \E i \in GoodConfigs : StrippedLen(i) > 0
                  THEN \E i \in GoodConfigs :
                           IsBest(i) /\ tess_ret.val = ocr_script[i].text
                  ELSE tess_ret.val = <<>>
        /\ tess_ret.at # "loop_end" =>
               /\ tess_ret.val = <<>>
               /\ calls = <<>>
               /\ ~image.decodable

\* the first run raised, the other two tie with different texts, and the
\* second one's text came back
C10_Witness ==
    /\ tpc = "ret"
    /\ Len(ocr_script) = 3
    /\ ocr_script[1].err
    /\ GoodConfigs = {2, 3}
    /\ StrippedLen(2) = StrippedLen(3)
    /\ StrippedLen(2) > 0
    /\ ocr_script[2].text # ocr_script[3].text
    /\ tess_ret.val = ocr_script[2].text

(***************************************************************************)
(* Properties of preprocess_image_for_ocr.                                 *)
(***************************************************************************)
\* C11 as stated: preprocess_image_for_ocr never raises to its caller and
\* always returns an image: the enhanced one, or the decoded image as it
\* is whenever a decode or enhancement step fails, for every buffer.
C11_AlwaysAnImage ==
    (caller = "direct" /\ tpc # "call") =>
        /\ processed_image \in {"enhanced", "raw"}
        /\ ~(image.decodable /\ image.enhance_ok) => processed_image = "raw"

\* C15 as stated: in every record an upload returns, from either path,
\* phone_numbers holds no string twice.
C15_NoDuplicatePhones ==
    Served =>
        LET d == result.extracted_data.m
        IN  ("phone_numbers" \in DOMAIN d /\ d["phone_numbers"].t = "list") =>
                \A i, j \in DOMAIN d["phone_numbers"].xs :
                    d["phone_numbers"].xs[i] = d["phone_numbers"].xs[j] => i = j

(***************************************************************************)
(* Properties of parse_text_manually.                                      *)
(***************************************************************************)
\* the text reads one of the words, in any case
HasWord(text, words) == \E w \in words : Contains(Lower(text), w)

\* the text has n digits in a row
HasDigits(text, n) ==
    \E i \in 1..(Len(text) - n + 1) : \A k \in i..(i + n - 1) : text[k] \in Digits

\* the lines after which the line rules take a candidate: the line reads
\* the word, none of the words that rule it out, and the next line has no
\* ten digits in a row
Triggers(lines, word, excluded) ==
    {i \in 1..(Len(lines) - 1) :
        /\ Contains(Lower(lines[i]), word)
        /\ ~HasWord(lines[i], excluded)
        /\ ~HasDigits(lines[i + 1], 10)}

Last(S) == CHOOSE i \in S : \A j \in S : j <= i

\* the line line is line i of lines and next is the line after it
Adjacent(lines, i, line, next) ==
    /\ i + 1 <= Len(lines)
    /\ lines[i] = line
    /\ lines[i + 1] = next

\* C12: parse_text_manually returns a record for every text, the empty one
\* included; all_text is the text as it came; a field whose keywords the
\* text does not read is null, and phone_numbers is empty when the text has
\* no ten digits in a row, so a text that reads none of them gives the
\* record of nulls.
C12_TotalAndVerbatim ==
    parser_data # None =>
        LET t == parser_text
            d == parser_data.m
        IN  /\ DOMAIN d = PaymentKeys
            /\ d["all_text"] = PyStr(t)
            /\ ~HasWord(t, {<<"t", "i", "d">>, <<"t", "r", "a", "n", "s", "a", "c", "t", "i", "o", "n">>, <<"r", "e", "f">>}) =>
                   d["transaction_id"] = None
            /\ (~HasWord(t, {<<"r", "s">>, <<"p", "k", "r">>} \cup {<<RupeeSign>>})
                  \/ \A i \in DOMAIN t : t[i] \notin Digits \cup {","}) =>
                   d["amount"] = None
            /\ ~HasDigits(t, 1) => d["date"] = None
            /\ ~HasWord(t, {<<"f", "e", "e">>, <<"c", "h", "a", "r", "g", "e", "s">>}) => d["fee"] = None
            /\ ~HasWord(t, SeqToSet(PaymentMethods)) =>
                   d["payment_method"] = None
            /\ ~HasWord(t, {<<"s", "u", "c", "c", "e", "s", "s", "f", "u", "l">>, <<"f", "a", "i", "l", "e", "d">>, <<"p", "e", "n", "d", "i", "n", "g">>}) =>
                   d["status"] = None
            /\ ~HasWord(t, {<<"f", "r", "o", "m">>}) => d["sender"] = None
            /\ ~HasWord(t, {<<"t", "o">>}) => d["receiver"] = None
            /\ ~HasDigits(t, 10) => d["phone_numbers"] = PyList(<<>>)
            /\ d["reference"] = None
            /\ d["bank_info"] = None
            /\ d["location"] = None

\* a text of two lines without keywords gave the record of nulls, and so
\* did the empty text
C12_Witness ==
    /\ parser_data # None
    /\ parser_text \in {<<>>, <<"h", "e", "l", "l", "o", " ", "w", "o", "r", "l", "d", "\n", "x", "y", "z">>}
    /\ parser_data.m =
           [k \in PaymentKeys |->
               IF k = "phone_numbers" THEN PyList(<<>>)
               ELSE IF k = "all_text" THEN PyStr(parser_text)
               ELSE None]

\* the places where the text reads core
Occurrences(text, core) ==
    {i \in 1..(Len(text) - Len(core) + 1) :
        SubSeq(text, i, i + Len(core) - 1) = core}

\* at i the text reads "rs" in any case, then "." or not, then whitespace
\* or none, then a digit or a comma
RsMarkAt(text, i) ==
    /\ i + 2 <= Len(text)
    /\ Lower(SubSeq(text, i, i + 1)) = <<"r", "s">>
    /\ \E j \in (i + 2)..Len(text) :
           /\ text[j] \in Digits \cup {","}
           /\ \A k \in (i + 2)..(j - 1) :
                  \/ k = i + 2 /\ text[k] = "."
                  \/ text[k] \in Whitespace

\* C13 as stated: for any text that contains "Rs. 1,234.50", amount is
\* "Rs. 1,234.50", whatever the text holds before or after it.
C13_AnyText ==
    (parser_data # None /\ Occurrences(parser_text, AmountCore) # {}) =>
        parser_data.m["amount"] = PyStr(AmountCore)

\* C13 amended: for any text that contains "Rs. 1,234.50" with no digit
\* right after it and with no earlier place that reads "rs" (in any case),
\* an optional ".", optional whitespace and then a digit or a comma, amount
\* is "Rs. 1,234.50".
C13_FirstMark ==
    parser_data # None =>
        \A i \in Occurrences(parser_text, AmountCore) :
            (/\ \A k \in 1..(i - 1) : ~RsMarkAt(parser_text, k)
             /\ \/ i + Len(AmountCore) > Len(parser_text)
                \/ parser_text[i + Len(AmountCore)] \notin Digits)
            => parser_data.m["amount"] = PyStr(AmountCore)

\* the amount stands after "PKR 5 " and before " PKR 9" and is the one read
C13_Witness ==
    /\ parser_data # None
    /\ parser_text = <<"P", "K", "R", " ", "5", " ">> \o AmountCore \o <<" ", "P", "K", "R", " ", "9">>
    /\ parser_data.m["amount"] = PyStr(AmountCore)

\* the runs of digits of a text, each as long as it goes
DigitRuns(text) ==
    {SubSeq(text, ij[1], ij[2]) : ij \in
        {ij \in (DOMAIN text) \X (DOMAIN text) :
            /\ ij[1] <= ij[2]
            /\ \A k \in ij[1]..ij[2] : text[k] \in Digits
            /\ ij[1] = 1 \/ text[ij[1] - 1] \notin Digits
            /\ ij[2] = Len(text) \/ text[ij[2] + 1] \notin Digits}}

\* C14 as stated: for a text that contains "+923001234567" and
\* "03001234567" and no other run of digits, phone_numbers has two entries,
\* those two strings.
C14_TwoPhones ==
    (/\ parser_data # None
     /\ Occurrences(parser_text, PhoneIntl) # {}
     /\ DigitRuns(parser_text) = {Tail(PhoneIntl), PhoneLocal})
    => /\ Len(parser_data.m["phone_numbers"].xs) = 2
       /\ SeqToSet(parser_data.m["phone_numbers"].xs) = {PhoneIntl, PhoneLocal}

\* the lines of the text handed to parse_text_manually
ParserLines == SplitLines(parser_text)

\* the rule for receiver: "to", not "total"
ReceiverTriggers == Triggers(ParserLines, <<"t", "o">>, {<<"t", "o", "t", "a", "l">>})

\* the rule for sender: "from"
SenderTriggers == Triggers(ParserLines, <<"f", "r", "o", "m">>, {})

\* C16 as stated: for any text in which a line "To" stands right before the
\* line "Bilal Store", receiver is "Bilal Store", whatever lines follow; and
\* a line that reads "total" never has receiver set from the line after it.
C16_WhateverFollows ==
    parser_data # None =>
        /\ (\E i \in DOMAIN ParserLines :
                Adjacent(ParserLines, i, ToLine, ReceiverLine))
           => parser_data.m["receiver"] = PyStr(ReceiverLine)
        /\ parser_data.m["receiver"] # None =>
               \E j \in ReceiverTriggers :
                   parser_data.m["receiver"] = PyStr(strip(ParserLines[j + 1]))

\* C16 amended: for any text in which a line "To" stands right before the
\* line "Bilal Store", receiver is "Bilal Store" provided no later line that
\* reads "to" and not "total" stands before a line without ten digits in a
\* row (in particular "Bilal Store" is the last line or the line after it
\* has such a run); and a line that reads "total" never has receiver set
\* from the line after it.
C16_LastCandidate ==
    parser_data # None =>
        /\ \A i \in DOMAIN ParserLines :
               (/\ Adjacent(ParserLines, i, ToLine, ReceiverLine)
                /\ \A j \in ReceiverTriggers : j <= i)
               => parser_data.m["receiver"] = PyStr(ReceiverLine)
        /\ parser_data.m["receiver"] # None =>
               \E j \in ReceiverTriggers :
                   parser_data.m["receiver"] = PyStr(strip(ParserLines[j + 1]))
        /\ ReceiverTriggers # {} =>
               parser_data.m["receiver"] =
                   PyStr(strip(ParserLines[Last(ReceiverTriggers) + 1]))

\* "To" and "Bilal Store" stand after a total line and before a phone
\* number, and receiver is "Bilal Store"
C16_Witness ==
    /\ parser_data # None
    /\ parser_text = TotalLine \o <<"\n">> \o ToLine \o <<"\n">> \o ReceiverLine
                       \o <<"\n">> \o PhoneLocal
    /\ parser_data.m["receiver"] = PyStr(ReceiverLine)

\* C17 as stated: for any text in which a line "From" stands right before
\* the line "Ahmed Khan", sender is "Ahmed Khan"; and a line after a "from"
\* line that has ten digits in a row is never stored as sender, so sender
\* stays null when no other "from" line gives one.
C17_AnyText ==
    parser_data # None =>
        /\ (\E i \in DOMAIN ParserLines :
                Adjacent(ParserLines, i, FromLine, SenderLine))
           => parser_data.m["sender"] = PyStr(SenderLine)
        /\ parser_data.m["sender"] # None =>
               \E j \in SenderTriggers :
                   parser_data.m["sender"] = PyStr(strip(ParserLines[j + 1]))

\* C17 amended: for any text in which a line "From" stands right before the
\* line "Ahmed Khan", sender is "Ahmed Khan" provided no later line that
\* reads "from" stands before a line without ten digits in a row; and a
\* line after a "from" line that has ten digits in a row is never stored as
\* sender, so sender stays null when no other "from" line gives one.
C17_LastCandidate ==
    parser_data # None =>
        /\ \A i \in DOMAIN ParserLines :
               (/\ Adjacent(ParserLines, i, FromLine, SenderLine)
                /\ \A j \in SenderTriggers : j <= i)
               => parser_data.m["sender"] = PyStr(SenderLine)
        /\ parser_data.m["sender"] # None =>
               \E j \in SenderTriggers :
                   parser_data.m["sender"] = PyStr(strip(ParserLines[j + 1]))
        /\ SenderTriggers # {} =>
               parser_data.m["sender"] =
                   PyStr(strip(ParserLines[Last(SenderTriggers) + 1]))

\* "From" and "Ahmed Khan" stand after an earlier "from" line, and sender
\* is "Ahmed Khan"
C17_Witness ==
    /\ parser_data # None
    /\ parser_text = <<"f", "r", "o", "m", "\n", "B", "o", "b", "\n">> \o FromLine \o <<"\n">> \o SenderLine
                       \o <<"\n", "T", "h", "a", "n", "k", "s">>
    /\ parser_data.m["sender"] = PyStr(SenderLine)

(***************************************************************************)
(* Properties of generate_new_screenshot.                                  *)
(***************************************************************************)
\* the strings drawn on an image, in the order of drawing
Strings(url) == [i \in DOMAIN url.texts |-> url.texts[i].text]

\* the string drawn at a place of an image, <<>> when none is
StringAt(url, xy) ==
    IF \E i \in DOMAIN url.texts : url.texts[i].xy = xy
    THEN url.texts[CHOOSE i \in DOMAIN url.texts : url.texts[i].xy = xy].text
    ELSE <<>>

\* where each field is drawn, and what is drawn when it is missing
FieldPlace ==
    [status |-> <<200, 50>>, date |-> <<200, 145>>, amount |-> <<200, 220>>,
     payment_method |-> <<200, 260>>, fee |-> <<330, 320>>,
     receiver |-> <<330, 370>>, sender |-> <<330, 450>>]
FieldDefault ==
    [status |-> <<"T", "r", "a", "n", "s", "a", "c", "t", "i", "o", "n", " ", "S", "u", "c", "c", "e", "s", "s", "f", "u", "l">>,
     date |-> Now,
     amount |-> <<"R", "s", ".", " ", "0", ".", "0", "0">>,
     payment_method |-> <<"Q", "R", " ", "P", "a", "y", "m", "e", "n", "t">>,
     fee |-> <<"R", "s", ".", " ", "0", ".", "0", "0">>,
     receiver |-> <<"R", "e", "c", "e", "i", "v", "e", "r", " ", "N", "a", "m", "e">>,
     sender |-> <<"S", "e", "n", "d", "e", "r", " ", "N", "a", "m", "e">>]

\* C18: generate_new_screenshot given an empty request returns an image, a
\* PNG of 400 by 600, on which the default strings stand: the status
\* "Transaction Successful", the amount "Rs. 0.00", the fee "Rs. 0.00", the
\* method "QR Payment", the receiver "Receiver Name", the sender "Sender
\* Name", and neither a TID line nor a phone line.
C18_EmptyRequestDefaults ==
    (/\ synth_pc = "returned"
     /\ synth_data = PyDict(EmptyDict)
     /\ template_type.t = "str")
    => /\ screenshot_url # None
       /\ screenshot_url.mime = "image/png"
       /\ screenshot_url.size = <<400, 600>>
       /\ Strings(screenshot_url) =
              <<<<"T", "r", "a", "n", "s", "a", "c", "t", "i", "o", "n", " ", "S", "u", "c", "c", "e", "s", "s", "f", "u", "l">>,
                Now,
                <<"R", "s", ".", " ", "0", ".", "0", "0">>,
                <<"Q", "R", " ", "P", "a", "y", "m", "e", "n", "t">>,
                <<"F", "e", "e">>,
                <<"R", "s", ".", " ", "0", ".", "0", "0">>,
                <<"T", "o">>,
                <<"R", "e", "c", "e", "i", "v", "e", "r", " ", "N", "a", "m", "e">>,
                <<"F", "r", "o", "m">>,
                <<"S", "e", "n", "d", "e", "r", " ", "N", "a", "m", "e">>,
                <<"S", "e", "c", "u", "r", "e", "l", "y", " ", "p", "a", "i", "d", " ", "v", "i", "a", " ">> \o
                    (IF template_type.s = <<>> THEN <<"P", "a", "y", "m", "e", "n", "t", " ", "A", "p", "p">>
                     ELSE Title(template_type.s))>>
       /\ \A k \in DOMAIN FieldPlace :
              StringAt(screenshot_url, FieldPlace[k]) = FieldDefault[k]

\* the call with {} and 'jazzcash' returned its image
C18_Witness ==
    /\ synth_pc = "returned"
    /\ synth_data = PyDict(EmptyDict)
    /\ template_type = PyStr(<<"j", "a", "z", "z", "c", "a", "s", "h">>)
    /\ screenshot_url # None
    /\ StringAt(screenshot_url, <<200, 570>>) = <<"S", "e", "c", "u", "r", "e", "l", "y", " ", "p", "a", "i", "d", " ", "v", "i", "a", " ", "J", "a", "z", "z", "c", "a", "s", "h">>
    /\ Len(screenshot_url.texts) = 11

\* C19 as stated: for a request with every key of the record present in
\* which status, date, amount, payment_method, fee, receiver or sender is
\* null, generate_new_screenshot still returns an image, and the default
\* string of the field stands in the field's place.
C19_NullDrawsDefault ==
    (/\ synth_pc = "returned"
     /\ template_type.t = "str"
     /\ PaymentKeys \subseteq DOMAIN synth_data.m
     /\ synth_data.m["phone_numbers"].t = "list"
     /\ \E k \in DOMAIN FieldPlace : synth_data.m[k] = None)
    => /\ screenshot_url # None
       /\ \A k \in DOMAIN FieldPlace :
              synth_data.m[k] = None =>
                  StringAt(screenshot_url, FieldPlace[k]) = FieldDefault[k]

(***************************************************************************)
(* Properties of the server with several requests at once.                 *)
(***************************************************************************)
\* the request of a frame as it arrived
ArrivalOf(f) == Arrival(f.kind, f.reject, f.image, f.service, f.ocr, f.body)

\* the frame of a request at its end when its handler runs with no other
\* request in the process
RECURSIVE RunAlone(_, _, _)
RunAlone(flag, fonts, f) ==
    IF f.pc = "done" THEN f ELSE RunAlone(flag, fonts, handler(flag, f, fonts, Now))

\* every request that has been answered has the answer, and the locals, it
\* has when it runs alone
SameAsAlone ==
    \A r \in DOMAIN frames :
        frames[r].pc = "done" =>
            /\ frames[r].result =
                   RunAlone(GEMINI_AVAILABLE, fonts_found,
                            ArrivalOf(frames[r])).result
            /\ frames[r] = RunAlone(GEMINI_AVAILABLE, fonts_found,
                                    ArrivalOf(frames[r]))

OcrCalls == SelectSeq(calls, LAMBDA c : c # "gemini")

\* the calls of the request to the vision service, in order
VisionCalls == SelectSeq(calls, LAMBDA c : c = "gemini")

\* C21: within one upload the vision service is called at most once, only
\* when GEMINI_AVAILABLE is set, and before every OCR call; the OCR engine
\* is called only if the vision result was not accepted, and then under
\* psm 6, psm 4, psm 3 in this order, each at most once; no call is
\* repeated.
C21_CallsOrdered ==
    /\ Len(VisionCalls) <= 1
    /\ VisionCalls # <<>> => GEMINI_AVAILABLE /\ calls[1] = "gemini"
    /\ gpc # "idle" => GEMINI_AVAILABLE /\ OcrCalls = <<>>
    /\ Len(OcrCalls) <= Len(Configs)
    /\ \A i \in DOMAIN OcrCalls : OcrCalls[i] = Configs[i]
    /\ calls = VisionCalls \o OcrCalls
    /\ (OcrCalls # <<>> \/ tpc # "idle") =>
           \/ gemini_data = None
           \/ ~gemini_accepted(gemini_data.m)

\* an upload answered after the vision call and the three OCR calls
C21_Witness ==
    /\ pc = "done"
    /\ result.code = 200
    /\ calls = <<"gemini", "psm6", "psm4", "psm3">>

(***************************************************************************)
(* Properties of the pattern loop of parse_text_manually.                  *)
(***************************************************************************)
\* the patterns of the list that match somewhere in the text
Matching(field_patterns, text) ==
    {k \in DOMAIN field_patterns : re_search(field_patterns[k], text, TRUE).ok}

\* the capture of the leftmost match of the first pattern that matches,
\* behind the prefix; None when no pattern matches
FirstCapture(field_patterns, text, prefix) ==
    LET ks == Matching(field_patterns, text)
        k == CHOOSE j \in ks : \A l \in ks : j <= l
    IN  IF ks = {}
        THEN None
        ELSE PyStr(prefix \o re_search(field_patterns[k], text, TRUE).group1)

\* C22: each of transaction_id, amount, date and fee holds the capture of
\* the first pattern of its list that matches anywhere in the text (that
\* pattern's leftmost match), wherever the later patterns of the list match
\* and whatever the other fields hold; amount and fee hold "Rs. " followed
\* by the capture.
C22_FirstPatternWins ==
    parser_data # None =>
        /\ parser_data.m["transaction_id"] =
               FirstCapture(TransactionIdPatterns, parser_text, <<>>)
        /\ parser_data.m["date"] =
               FirstCapture(DatePatterns, parser_text, <<>>)
        /\ parser_data.m["amount"] =
               FirstCapture(AmountPatterns, parser_text, <<"R", "s", ".", " ">>)
        /\ parser_data.m["fee"] =
               FirstCapture(FeePatterns, parser_text, <<"R", "s", ".", " ">>)

\* a text in which the Ref, PKR and Charges markers stand before the TID,
\* Rs and Fee markers, parsed
C22_Witness ==
    /\ parser_data # None
    /\ parser_text = PriorityText
    /\ parser_data.m["transaction_id"] = PyStr(<<"A", "1">>)
    /\ parser_data.m["amount"] = PyStr(<<"R", "s", ".", " ", "3">>)
    /\ parser_data.m["fee"] = PyStr(<<"R", "s", ".", " ", "2">>)
    /\ Cardinality(Matching(TransactionIdPatterns, parser_text)) > 1

\* the places of the text where "ref" stands, in any case
RefPlaces(text) ==
    {i \in 1..(Len(text) - 2) : Lower(SubSeq(text, i, i + 2)) = <<"r", "e", "f">>}

\* the text has one identifier marker, "Reference:" at place i
OnlyReferenceAt(text, i) ==
    /\ RefPlaces(text) = {i}
    /\ i + 9 <= Len(text)
    /\ Lower(SubSeq(text, i, i + 9)) = <<"r", "e", "f", "e", "r", "e", "n", "c", "e", ":">>
    /\ ~Contains(Lower(text), <<"t", "i", "d">>)
    /\ ~Contains(Lower(text), <<"t", "r", "a", "n", "s", "a", "c", "t", "i", "o", "n">>)

\* the run of letters and digits of the text that starts at place i or
\* after the blanks from place i on
RECURSIVE RunFrom(_, _)
RunFrom(text, i) ==
    IF i > Len(text) THEN <<>>
    ELSE IF text[i] \in AlNum THEN <<text[i]>> \o RunFrom(text, i + 1)
    ELSE <<>>
RECURSIVE RunAfterBlanks(_, _)
RunAfterBlanks(text, i) ==
    IF i <= Len(text) /\ text[i] \in Whitespace
    THEN RunAfterBlanks(text, i + 1)
    ELSE RunFrom(text, i)

\* C23 as stated: for a text whose only identifier marker is "Reference: X"
\* transaction_id is X, the run of letters and digits after the marker.
C23_ReferenceCaptured ==
    parser_data # None =>
        \A i \in DOMAIN parser_text :
            OnlyReferenceAt(parser_text, i) =>
                parser_data.m["transaction_id"] =
                    PyStr(RunAfterBlanks(parser_text, i + 10))

(***************************************************************************)
(* Properties of the status and of the payment method.                     *)
(***************************************************************************)
StatusWords == {<<"s", "u", "c", "c", "e", "s", "s", "f", "u", "l">>, <<"f", "a", "i", "l", "e", "d">>, <<"p", "e", "n", "d", "i", "n", "g">>}

\* the lines of the text that hold a status keyword, in any case
KeywordLines ==
    {i \in DOMAIN ParserLines :
        \E w \in StatusWords : Contains(Lower(ParserLines[i]), w)}

\* the status a line with a keyword stands for
StatusOfLine(line) ==
    IF Contains(Lower(line), <<"s", "u", "c", "c", "e", "s", "s", "f", "u", "l">>)
    THEN PyStr(<<"S", "u", "c", "c", "e", "s", "s", "f", "u", "l">>)
    ELSE IF Contains(Lower(line), <<"f", "a", "i", "l", "e", "d">>)
    THEN PyStr(<<"F", "a", "i", "l", "e", "d">>)
    ELSE PyStr(<<"P", "e", "n", "d", "i", "n", "g">>)

\* C24: status is determined by the last line that holds one of the
\* keywords successful, failed, pending in any case: Successful if the line
\* holds "successful", else Failed if it holds "failed", else Pending;
\* lines without a keyword change nothing, and status is null when no line
\* holds a keyword.
C24_LastKeywordLine ==
    parser_data # None =>
        parser_data.m["status"] =
            IF KeywordLines = {}
            THEN None
            ELSE StatusOfLine(ParserLines[Last(KeywordLines)])

\* a text with "Failed" on its first line, "Successful" on its second and
\* a third line without a keyword, parsed
C24_Witness ==
    /\ parser_data # None
    /\ parser_text = StatusText
    /\ KeywordLines = {1, 2}
    /\ parser_data.m["status"] = PyStr(<<"S", "u", "c", "c", "e", "s", "s", "f", "u", "l">>)

\* the terms of the vocabulary that occur in the lower-cased text
MethodsFound ==
    {k \in DOMAIN PaymentMethods :
        Contains(Lower(parser_text), PaymentMethods[k])}

\* C25: payment_method is the title-cased first term of the vocabulary
\* jazzcash, easypaisa, ubl, hbl, bank, wallet that occurs in the
\* lower-cased text, first in the order of the vocabulary and not of the
\* text; it is null when no term occurs.
C25_FirstTermOfVocabulary ==
    /\ PaymentMethods = <<<<"j", "a", "z", "z", "c", "a", "s", "h">>, <<"e", "a", "s", "y", "p", "a", "i", "s", "a">>, <<"u", "b", "l">>, <<"h", "b", "l">>, <<"b", "a", "n", "k">>, <<"w", "a", "l", "l", "e", "t">>>>
    /\ parser_data # None =>
           parser_data.m["payment_method"] =
               IF MethodsFound = {}
               THEN None
               ELSE PyStr(Title(PaymentMethods[
                        CHOOSE k \in MethodsFound :
                            \A j \in MethodsFound : k <= j]))

\* a text with "wallet" before "EasyPaisa", parsed
C25_Witness ==
    /\ parser_data # None
    /\ parser_text = MethodText
    /\ MethodsFound = {2, 6}
    /\ parser_data.m["payment_method"] = PyStr(<<"E", "a", "s", "y", "p", "a", "i", "s", "a">>)

(***************************************************************************)
(* Properties of the rows, the palette and the branding of the receipt.    *)
(***************************************************************************)
\* generate_new_screenshot has returned into screenshot_url
Rendered == synth_pc \in {"returned", "respond"} /\ synth_data.t = "dict"

\* a string is drawn at the place of the image
DrawnAt(url, xy) == \E i \in DOMAIN url.texts : url.texts[i].xy = xy

\* phone_numbers of the request, [] when the key is missing
Phones == GetOr(synth_data.m, "phone_numbers", PyList(<<>>))

\* phone_numbers is a list of non-empty strings
PhoneStrings ==
    /\ Phones.t = "list"
    /\ \A i \in DOMAIN Phones.xs : Phones.xs[i].t = "str" /\ Phones.xs[i].s # <<>>

\* every other field that is drawn is missing or a string, and the
\* template is a string
OthersDrawable ==
    /\ template_type.t = "str"
    /\ \A k \in DOMAIN FieldPlace :
           k \in DOMAIN synth_data.m => synth_data.m[k].t = "str"

\* C26: the phone under the To row is the first entry of phone_numbers; the
\* phone under the From row is the second entry when there are at least
\* two, otherwise the first; with an empty list neither phone line is drawn
\* and the list raises no error.
C26_PhoneRows ==
    (Rendered /\ PhoneStrings) =>
        /\ OthersDrawable => screenshot_url # None
        /\ screenshot_url # None =>
               LET n == Len(Phones.xs)
               IN  /\ DrawnAt(screenshot_url, <<330, 395>>) <=> n >= 1
                   /\ DrawnAt(screenshot_url, <<330, 475>>) <=> n >= 1
                   /\ n >= 1 =>
                          /\ StringAt(screenshot_url, <<330, 395>>) =
                                 Phones.xs[1].s
                          /\ StringAt(screenshot_url, <<330, 475>>) =
                                 IF n >= 2 THEN Phones.xs[2].s
                                 ELSE Phones.xs[1].s

\* a receipt drawn from a record with three phone numbers
C26_Witness ==
    /\ Rendered
    /\ PhoneStrings
    /\ Len(Phones.xs) = 3
    /\ screenshot_url # None
    /\ StringAt(screenshot_url, <<330, 395>>) = <<"0", "3", "0", "0">>
    /\ StringAt(screenshot_url, <<330, 475>>) = <<"0", "3", "0", "1">>

\* every field that is drawn is missing or a string, and the phones are
\* strings
FieldsDrawable ==
    /\ PhoneStrings
    /\ \A k \in DOMAIN FieldPlace :
           k \in DOMAIN synth_data.m => synth_data.m[k].t = "str"

Orange == [color1 |-> <<255, 165, 0>>, color2 |-> <<255, 140, 0>>]
Green == [color1 |-> <<34, 139, 34>>, color2 |-> <<0, 100, 0>>]

\* C27 as stated: generate_new_screenshot selects between two palettes by
\* one comparison, the orange pair when the template selector equals
\* "jazzcash" ignoring case and the green pair for every other value of the
\* selector, and no value of the selector makes the rendering fail.
C27_TwoPalettes ==
    (Rendered /\ FieldsDrawable) =>
        /\ screenshot_url # None
        /\ screenshot_url.gradient =
               IF /\ template_type.t = "str"
                  /\ Lower(template_type.s) = <<"j", "a", "z", "z", "c", "a", "s", "h">>
               THEN Orange
               ELSE Green

\* the selector of the request, NoTemplate when the body has none
Selector == GetOr(synth_data.m, "template_type", NoTemplate)

\* C28 as stated: the branding line drawn by the synthesis call is
\* "Securely paid via " followed by the title-cased template name when a
\* template is given, and "Securely paid via Payment App" when none is
\* given (selector missing, null or empty); in both cases an image is
\* produced.
C28_Branding ==
    (synth_pc = "respond" /\ FieldsDrawable) =>
        /\ screenshot_url # None
        /\ StringAt(screenshot_url, <<200, 570>>) =
               <<"S", "e", "c", "u", "r", "e", "l", "y", " ", "p", "a", "i", "d", " ", "v", "i", "a", " ">> \o
                   (IF Selector.t = "str" /\ Selector.s # <<>>
                    THEN Title(Selector.s)
                    ELSE <<"P", "a", "y", "m", "e", "n", "t", " ", "A", "p", "p">>)

(***************************************************************************)
(* The two source files compared.                                          *)
(***************************************************************************)
\* both handlers have answered the upload
BothDone ==
    /\ DOMAIN frames = Sources
    /\ \A s \in Sources : frames[s].pc = "done"

\* C29: the upload pipelines of the two source files agree: with the same
\* flag, the same outcome of the vision service, the same outcome of
\* decoding the image and the same OCR outputs per profile, both return
\* the same record and the same method tag; for bytes that do not decode
\* both return the parser's record of the empty text.
C29_PanelsAgree ==
    BothDone =>
        /\ frames["complete"].result = frames["single"].result
        /\ (~frames["complete"].image.decodable
              /\ frames["complete"].reject = "") =>
               \A s \in Sources :
                   /\ frames[s].result.code = 200
                   /\ frames[s].result.extraction_method = "tesseract"
                   /\ frames[s].result.extracted_data \in
                          {PyDict(d) : d \in ParsedRecords(<<>>)}
                   /\ frames[s].tesseract_text = PyStr(<<>>)

\* both files have answered an upload of bytes that do not decode, with
\* GEMINI_AVAILABLE set
C29_Witness ==
    /\ BothDone
    /\ GEMINI_AVAILABLE
    /\ ~frames["complete"].image.decodable
    /\ frames["single"].result.code = 200
    /\ frames["single"].result.extracted_data.m["all_text"] = PyStr(<<>>)

(***************************************************************************)
(* Properties of the gradient.                                             *)
(***************************************************************************)
\* v lies between a and b, whichever is the larger
Between(v, a, b) == (a <= v /\ v <= b) \/ (b <= v /\ v <= a)

\* the fill of the row drawn last lies between the two colors and in
\* 0..255, is color1 on row 0 and color2 on row 599
FillInRange ==
    (synth_pc = "gradient" /\ gradient_fill # None) =>
        LET colors == palette(template_type).val
            row == gradient_y - 1
        IN  /\ colors \in {Orange, Green}
            /\ \A c \in 1..3 :
                   /\ Between(gradient_fill[c], colors.color1[c],
                              colors.color2[c])
                   /\ gradient_fill[c] \in 0..255
            /\ row = 0 => gradient_fill = colors.color1
            /\ row = 599 => gradient_fill = colors.color2

\* from one row to the next each channel moves towards color2 or stays
FillMonotone ==
    (synth_pc = "gradient" /\ gradient_fill # None) =>
        LET colors == palette(template_type).val
        IN  \A c \in 1..3 :
                IF colors.color1[c] <= colors.color2[c]
                THEN gradient_fill[c] <= gradient_fill'[c]
                ELSE gradient_fill[c] >= gradient_fill'[c]

\* C30: for both palettes and every row y in 0..599 each channel,
\* color1 + (color2 - color1) * y // 600 with the division rounding down,
\* lies between the channels of color1 and color2 (so in 0..255), changes
\* monotonically with y, is that of color1 on row 0 and that of color2 on
\* row 599.
C30_GradientChannels ==
    /\ []FillInRange
    /\ [][FillMonotone]_vars

\* the last row of the orange gradient is drawn, in color2
C30_Witness ==
    /\ synth_pc = "gradient"
    /\ gradient_y = 600
    /\ gradient_fill # None
    /\ template_type = PyStr(<<"j", "a", "z", "z", "c", "a", "s", "h">>)
    /\ gradient_fill = <<255, 140, 0>>

=============================================================================
